---- MODULE Spec2Model ----
(***************************************************************************)
(* A model of the limit order book of src/OrderBook.h (class Orderbook,    *)
(* lines 247-846) with the Order of src/Order.h, the ExchangeRules of      *)
(* src/ExchangeRules.h and the messages of src/MarketDataFeed.h.           *)
(*                                                                         *)
(* The book is the three containers of the class: bids_ and asks_ map a    *)
(* price to the FIFO list of the orders resting at it, orders_ is the      *)
(* index by order id.  An Order object is the record kept in its level;    *)
(* an index entry (OrderEntry) is modelled by the fields of the order it   *)
(* points to that never change once the order is in the book (type, side,  *)
(* price): side, price and id are what location_ stands for.               *)
(*                                                                         *)
(* An OrderId is a 64 bit unsigned number, written here <<hi, lo>> for     *)
(* hi * 2^63 + lo; ids are only compared for equality and incremented.     *)
(* Time is counted in minutes elapsed since the local midnight of day 0;   *)
(* the wall clock of std::localtime runs with it but for the change of the *)
(* zone (summer time), which sets it forward or back.                      *)
(***************************************************************************)
EXTENDS Integers, Sequences, FiniteSets, TLC

VARIABLES
    bids_,               \* std::map<Price, OrderPointers, greater>
    asks_,               \* std::map<Price, OrderPointers, less>
    orders_,             \* std::unordered_map<OrderId, OrderEntry>
    lastDayReset_,       \* time of the last day reset
    dayResetHour_,
    dayResetMinute_,
    stats_,              \* MarketDataStats (the counters)
    lastSequenceNumber_,
    isInitialized_,
    exchangeRules_,
    now,                 \* what std::chrono::system_clock::now() returns next
    nextReads,           \* what it returns on the reads after that one
    clockChange,         \* the zone of std::localtime: its change of the wall clock
    killed               \* the process was killed on a read of freed memory

vars == <<bids_, asks_, orders_, lastDayReset_, dayResetHour_, dayResetMinute_,
          stats_, lastSequenceNumber_, isInitialized_, exchangeRules_, now, nextReads,
          clockChange, killed>>

----------------------------------------------------------------------------
(* Bounds of the model. *)

MaxOrderId == 2
MaxPrice == 2
MaxQuantity == 2
MaxMessages == 1
MaxSequenceNumber == 1

(* Program constants. *)

PRICE_MAX == 2147483647
PRICE_MIN == -2147483647 - 1
InvalidPrice == 0
MinutesPerHour == 60
HoursPerDay == 24
DefaultResetHour == 15
DefaultResetMinute == 59
DefaultMaxQuantity == 1000000

OrderTypes == {"GoodTillCancel", "ImmediateOrCancel", "Market", "GoodForDay", "FillOrKill"}
Sides == {"Buy", "Sell"}

SyntheticIdBase == <<1, 0>>
ClientId(n) == <<0, n>>
NextId(id) == <<id[1], id[2] + 1>>

DefaultRules ==
    [tickSize |-> 1, lotSize |-> 1, minQuantity |-> 1,
     maxQuantity |-> DefaultMaxQuantity, minNotional |-> 0]

----------------------------------------------------------------------------
(* Helpers. *)

MinOf(a, b) == IF a < b THEN a ELSE b
SetMax(S) == CHOOSE x \in S : \A y \in S : y <= x
SetMin(S) == CHOOSE x \in S : \A y \in S : x <= y

RECURSIVE SumSeq(_)
SumSeq(s) == IF s = <<>> THEN 0 ELSE Head(s) + SumSeq(Tail(s))

RECURSIVE RemoveFirst(_, _)
RemoveFirst(s, id) ==
    IF s = <<>> THEN <<>>
    ELSE IF Head(s).orderId = id THEN Tail(s)
    ELSE <<Head(s)>> \o RemoveFirst(Tail(s), id)

WithoutKey(f, k) == [x \in (DOMAIN f) \ {k} |-> f[x]]
WithKey(f, k, v) == [x \in (DOMAIN f) \cup {k} |-> IF x = k THEN v ELSE f[x]]

----------------------------------------------------------------------------
(* Order (src/Order.h). *)

NewOrder(type, id, side, price, quantity) ==
    [orderType |-> type, orderId |-> id, side |-> side, price |-> price,
     initialQuantity |-> quantity, remainingQuantity |-> quantity]

(* Fill taking what remains when quantity exceeds it. *)
FillWhatRemains(order, quantity) ==
    IF quantity > order.remainingQuantity THEN [order EXCEPT !.remainingQuantity = 0]
    ELSE [order EXCEPT !.remainingQuantity = @ - quantity]

(* The value Fill returns. *)
FillSucceeds(order, quantity) == ~(quantity > order.remainingQuantity)

Fill(order, quantity) ==
    IF quantity > order.remainingQuantity THEN order
    ELSE [order EXCEPT !.remainingQuantity = @ - quantity]

ToGoodTillCancel(order, price) ==
    IF order.orderType # "Market" THEN order
    ELSE [order EXCEPT !.price = price, !.orderType = "GoodTillCancel"]

IsFilled(order) == order.remainingQuantity = 0

ToOrderPointer(modify, type) ==
    NewOrder(type, modify.orderId, modify.side, modify.price, modify.quantity)

OrderEntry(order) ==
    [orderType |-> order.orderType, side |-> order.side, price |-> order.price]

TradeInfo(id, price, quantity) == [orderId |-> id, price |-> price, quantity |-> quantity]
Trade(bidTrade, askTrade) == [bid |-> bidTrade, ask |-> askTrade]

----------------------------------------------------------------------------
(* ExchangeRules (src/ExchangeRules.h). *)

IsValidPrice(rules, price) ==
    IF price <= 0 THEN FALSE ELSE price % rules.tickSize = 0

IsValidQuantity(rules, quantity) ==
    IF quantity < rules.minQuantity \/ quantity > rules.maxQuantity THEN FALSE
    ELSE quantity % rules.lotSize = 0

IsValidNotional(rules, price, quantity) == price * quantity >= rules.minNotional

----------------------------------------------------------------------------
(* The book: a record [bids, asks, orders, lastDayReset] holding the       *)
(* members the operations change, with readFreed: the call under way has   *)
(* read an index entry it had erased (CancelOrder, MatchOrder), and reads: *)
(* the number of times the call under way has read the clock.              *)

Self == [bids |-> bids_, asks |-> asks_, orders |-> orders_,
         lastDayReset |-> lastDayReset_, readFreed |-> FALSE, reads |-> 0]

EmptyLevels == [p \in {} |-> <<>>]

BestBid(ob) == SetMax(DOMAIN ob.bids)

(* The last ask level in the place of the first. *)
WorstAsk(ob) == SetMax(DOMAIN ob.asks)

BestAsk(ob) == SetMin(DOMAIN ob.asks)

CanMatch(ob, side, price) ==
    IF side = "Buy"
    THEN IF DOMAIN ob.asks = {} THEN FALSE ELSE price >= BestAsk(ob)
    ELSE IF DOMAIN ob.bids = {} THEN FALSE ELSE price <= BestBid(ob)

(* ValidateOrder without the lookup of the id in the index. *)
ValidateRulesOnly(ob, order) ==
    LET isConvertedMarketOrder == order.price = PRICE_MAX \/ order.price = PRICE_MIN
    IN  IF ~isConvertedMarketOrder /\ ~IsValidPrice(exchangeRules_, order.price)
        THEN "InvalidPrice"
        ELSE IF ~IsValidQuantity(exchangeRules_, order.remainingQuantity)
        THEN "InvalidQuantity"
        ELSE IF ~isConvertedMarketOrder
                /\ ~IsValidNotional(exchangeRules_, order.price, order.remainingQuantity)
        THEN "BelowMinNotional"
        ELSE "None"

ValidateOrder(ob, order) ==
    LET isConvertedMarketOrder == order.price = PRICE_MAX \/ order.price = PRICE_MIN
    IN  IF order.orderId \in DOMAIN ob.orders THEN "DuplicateOrderId"
        ELSE IF ~isConvertedMarketOrder /\ ~IsValidPrice(exchangeRules_, order.price)
        THEN "InvalidPrice"
        ELSE IF ~IsValidQuantity(exchangeRules_, order.remainingQuantity)
        THEN IF order.remainingQuantity < exchangeRules_.minQuantity THEN "BelowMinQuantity"
             ELSE IF order.remainingQuantity > exchangeRules_.maxQuantity THEN "AboveMaxQuantity"
             ELSE "InvalidQuantity"
        ELSE IF ~isConvertedMarketOrder
                /\ ~IsValidNotional(exchangeRules_, order.price, order.remainingQuantity)
        THEN "BelowMinNotional"
        ELSE "None"

(* EraseFromLevel leaving the level it emptied in the map. *)
EraseKeepingLevel(levels, price, orderId) ==
    IF price \notin DOMAIN levels THEN levels
    ELSE [levels EXCEPT ![price] = RemoveFirst(levels[price], orderId)]

(* Erasing the list element location_ points to, then the level if that    *)
(* emptied it.  at(price) finds the level in every state the book reaches. *)
EraseFromLevel(levels, price, orderId) ==
    IF price \notin DOMAIN levels THEN levels
    ELSE LET rest == RemoveFirst(levels[price], orderId)
         IN  IF rest = <<>> THEN WithoutKey(levels, price)
             ELSE [levels EXCEPT ![price] = rest]

(* CancelOrder erasing the order from its level and leaving its entry in   *)
(* the index.                                                              *)
CancelKeepingEntry(ob, orderId) ==
    IF orderId \notin DOMAIN ob.orders THEN ob
    ELSE LET entry == ob.orders[orderId]
             kept == [ob EXCEPT !.readFreed = TRUE]
         IN  IF entry.side = "Sell"
             THEN [kept EXCEPT !.asks = EraseFromLevel(ob.asks, entry.price, orderId)]
             ELSE [kept EXCEPT !.bids = EraseFromLevel(ob.bids, entry.price, orderId)]

(* CancelOrder erasing the whole level of the order. *)
CancelLevel(ob, orderId) ==
    IF orderId \notin DOMAIN ob.orders THEN ob
    ELSE LET entry == ob.orders[orderId]
             erased == [ob EXCEPT !.orders = WithoutKey(ob.orders, orderId),
                                  !.readFreed = TRUE]
         IN  IF entry.side = "Sell"
             THEN [erased EXCEPT !.asks = WithoutKey(ob.asks, entry.price)]
             ELSE [erased EXCEPT !.bids = WithoutKey(ob.bids, entry.price)]

(* The code binds order and orderIterator by reference to the index entry *)
(* and reads them once orders_.erase(orderId) has destroyed that entry:    *)
(* the reads are of freed memory.  Nothing is allocated between the erase  *)
(* and the reads, so they give the values the entry held when the          *)
(* allocator leaves freed memory as it was, and the process is killed on   *)
(* them when it does not (a perturbing or checking allocator).  The book   *)
(* computed here is that of the first outcome; readFreed records that the  *)
(* call has the second, which the calls take with Outcomes.                *)
CancelOrder(ob, orderId) ==
    IF orderId \notin DOMAIN ob.orders THEN ob
    ELSE LET entry == ob.orders[orderId]
             erased == [ob EXCEPT !.orders = WithoutKey(ob.orders, orderId),
                                  !.readFreed = TRUE]
         IN  IF entry.side = "Sell"
             THEN [erased EXCEPT !.asks = EraseFromLevel(ob.asks, entry.price, orderId)]
             ELSE [erased EXCEPT !.bids = EraseFromLevel(ob.bids, entry.price, orderId)]

RECURSIVE CancelAll(_, _)
CancelAll(ob, ids) ==
    IF ids = {} THEN ob
    ELSE LET id == CHOOSE x \in ids : TRUE
         IN  CancelAll(CancelOrder(ob, id), ids \ {id})

----------------------------------------------------------------------------
(* The day reset (CheckAndResetDay, CancelGoodForDayOrders).               *)

(* The minutes of a day of the wall clock, the tm_hour and tm_min of a     *)
(* std::tm; a calendar day with a change of the clock lasts an hour less   *)
(* or more than that.                                                      *)
MinutesPerDay == HoursPerDay * MinutesPerHour

(* The zone is its one change of the wall clock in the days of the model:  *)
(* from the instant at on, the wall clock is shift minutes ahead of where  *)
(* the clock of day 0 would be.                                            *)
Shift(t) == IF t >= clockChange.at THEN clockChange.shift ELSE 0

(* std::localtime: the wall clock at the instant t, in minutes since the   *)
(* midnight of day 0; its calendar day.                                    *)
LocalTime(t) == t + Shift(t)
LocalDay(t) == LocalTime(t) \div MinutesPerDay

(* std::chrono::system_clock::now() on the i-th read from this state on:   *)
(* now, then the instants of nextReads, then the last of them.  A call     *)
(* that reads the clock more than once (MatchOrder, and                    *)
(* ProcessMarketDataBatch for every message) may find it moved between two *)
(* reads.                                                                  *)
Reading(i) ==
    IF i = 1 \/ nextReads = <<>> THEN now
    ELSE IF i - 1 <= Len(nextReads) THEN nextReads[i - 1]
    ELSE nextReads[Len(nextReads)]

(* std::mktime of the calendar day of t at the reset hour and minute, read *)
(* with the tm_isdst of t: the wall time is taken with the shift in force  *)
(* at t, also when the clock changes between the two.                      *)
ResetTimeAt(t) ==
    LocalDay(t) * MinutesPerDay
        + dayResetHour_ * MinutesPerHour + dayResetMinute_ - Shift(t)

(* todayResetTime for a check made at now. *)
TodayResetTime == ResetTimeAt(now)

(* The condition of the check the call makes next, on its next read of the *)
(* clock.                                                                  *)
ShouldResetDay(ob) ==
    /\ ob.lastDayReset < ResetTimeAt(Reading(ob.reads + 1))
    /\ Reading(ob.reads + 1) >= ResetTimeAt(Reading(ob.reads + 1))

(* The sweep cancelling one GoodForDay order only. *)
CancelOneGoodForDay(ob) ==
    LET ids == {id \in DOMAIN ob.orders : ob.orders[id].orderType = "GoodForDay"}
    IN  IF ids = {} THEN ob ELSE CancelOrder(ob, CHOOSE id \in ids : TRUE)

CancelGoodForDayOrders(ob) ==
    CancelAll(ob, {id \in DOMAIN ob.orders : ob.orders[id].orderType = "GoodForDay"})

(* The day check with the sweep and without the mark of the reset. *)
CheckAndResetDayUnmarked(ob) ==
    IF ShouldResetDay(ob)
    THEN [CancelGoodForDayOrders(ob) EXCEPT !.reads = @ + 1]
    ELSE [ob EXCEPT !.reads = @ + 1]

CheckAndResetDay(ob) ==
    IF ShouldResetDay(ob)
    THEN [CancelGoodForDayOrders(ob) EXCEPT !.lastDayReset = Reading(ob.reads + 1),
                                            !.reads = @ + 1]
    ELSE [ob EXCEPT !.reads = @ + 1]

----------------------------------------------------------------------------
(* FillOrKill (CollectMatchesForFillOrKill, ExecuteMatchesForFillOrKill,   *)
(* MatchFillOrKill).  A collected match is the resting order and the       *)
(* quantity to take from it; c is [matches, remaining].                    *)

RECURSIVE CollectLevel(_, _)
CollectLevel(level, c) ==
    IF level = <<>> THEN c
    ELSE LET matchQty == MinOf(c.remaining, Head(level).remainingQuantity)
             c2 == [matches |-> Append(c.matches, [order |-> Head(level), quantity |-> matchQty]),
                    remaining |-> c.remaining - matchQty]
         IN  IF c2.remaining = 0 THEN c2 ELSE CollectLevel(Tail(level), c2)

RECURSIVE CollectLevels(_, _, _)
CollectLevels(levels, order, c) ==
    IF DOMAIN levels = {} THEN c
    ELSE LET best == IF order.side = "Buy" THEN SetMin(DOMAIN levels)
                     ELSE SetMax(DOMAIN levels)
             tooFar == IF order.side = "Buy" THEN best > order.price
                       ELSE best < order.price
         IN  IF tooFar THEN c
             ELSE LET c2 == CollectLevel(levels[best], c)
                  IN  IF c2.remaining = 0 THEN c2
                      ELSE CollectLevels(WithoutKey(levels, best), order, c2)

(* CollectMatchesForFillOrKill without the limit of the order. *)
CollectUnpriced(ob, order, remainingQuantity) ==
    CollectLevels(IF order.side = "Buy" THEN ob.asks ELSE ob.bids,
                  [order EXCEPT !.price = IF order.side = "Buy" THEN PRICE_MAX
                                          ELSE PRICE_MIN],
                  [matches |-> <<>>, remaining |-> remainingQuantity])

CollectMatchesForFillOrKill(ob, order, remainingQuantity) ==
    CollectLevels(IF order.side = "Buy" THEN ob.asks ELSE ob.bids, order,
                  [matches |-> <<>>, remaining |-> remainingQuantity])

(* matchOrder->Fill(quantity) on the object the book shares. *)
RECURSIVE FillInLevel(_, _, _)
FillInLevel(level, orderId, quantity) ==
    IF level = <<>> THEN <<>>
    ELSE IF Head(level).orderId = orderId
    THEN <<Fill(Head(level), quantity)>> \o Tail(level)
    ELSE <<Head(level)>> \o FillInLevel(Tail(level), orderId, quantity)

FillResting(ob, resting, quantity) ==
    IF resting.side = "Sell"
    THEN [ob EXCEPT !.asks[resting.price] = FillInLevel(@, resting.orderId, quantity)]
    ELSE [ob EXCEPT !.bids[resting.price] = FillInLevel(@, resting.orderId, quantity)]

(* r is [ob, order, trades]: the book, the incoming order and the trades. *)
RECURSIVE ExecuteMatchesForFillOrKill(_, _)
ExecuteMatchesForFillOrKill(r, matchingOrders) ==
    IF matchingOrders = <<>> THEN r
    ELSE LET m == Head(matchingOrders)
             order == Fill(r.order, m.quantity)
             matchOrder == Fill(m.order, m.quantity)
             filled == FillResting(r.ob, m.order, m.quantity)
             trade == IF order.side = "Buy"
                      THEN Trade(TradeInfo(order.orderId, order.price, m.quantity),
                                 TradeInfo(matchOrder.orderId, matchOrder.price, m.quantity))
                      ELSE Trade(TradeInfo(matchOrder.orderId, matchOrder.price, m.quantity),
                                 TradeInfo(order.orderId, order.price, m.quantity))
             ob2 == IF IsFilled(matchOrder) THEN CancelOrder(filled, matchOrder.orderId)
                    ELSE filled
         IN  ExecuteMatchesForFillOrKill(
                 [ob |-> ob2, order |-> order, trades |-> Append(r.trades, trade)],
                 Tail(matchingOrders))

(* ExecuteIfComplete filling what it found of an order it then kills. *)
ExecuteThenKill(ob, order, c) ==
    IF c.remaining > 0
    THEN [ExecuteMatchesForFillOrKill([ob |-> ob, order |-> order, trades |-> <<>>],
                                      c.matches) EXCEPT !.trades = <<>>]
    ELSE ExecuteMatchesForFillOrKill([ob |-> ob, order |-> order, trades |-> <<>>],
                                     c.matches)

(* c is what CollectMatchesForFillOrKill found. *)
ExecuteIfComplete(ob, order, c) ==
    IF c.remaining > 0 THEN [ob |-> ob, order |-> order, trades |-> <<>>]
    ELSE ExecuteMatchesForFillOrKill([ob |-> ob, order |-> order, trades |-> <<>>],
                                     c.matches)

MatchFillOrKill(ob, order) ==
    ExecuteIfComplete(ob, order,
                      CollectMatchesForFillOrKill(ob, order, order.remainingQuantity))

----------------------------------------------------------------------------
(* The crossing loop (MatchOrders). *)

(* The inner loop recording both slots at the price of the ask. *)
RECURSIVE MatchLevelsAtAskPrice(_)
MatchLevelsAtAskPrice(l) ==
    IF l.bids = <<>> \/ l.asks = <<>> THEN l
    ELSE LET bid == Head(l.bids)
             ask == Head(l.asks)
             quantity == MinOf(bid.remainingQuantity, ask.remainingQuantity)
             trade == Trade(TradeInfo(bid.orderId, ask.price, quantity),
                            TradeInfo(ask.orderId, ask.price, quantity))
             bid2 == Fill(bid, quantity)
             ask2 == Fill(ask, quantity)
         IN  MatchLevelsAtAskPrice(
                 [bids |-> IF IsFilled(bid2) THEN Tail(l.bids)
                           ELSE <<bid2>> \o Tail(l.bids),
                  asks |-> IF IsFilled(ask2) THEN Tail(l.asks)
                           ELSE <<ask2>> \o Tail(l.asks),
                  trades |-> Append(l.trades, trade),
                  filled |-> l.filled
                               \cup (IF IsFilled(bid2) THEN {bid.orderId} ELSE {})
                               \cup (IF IsFilled(ask2) THEN {ask.orderId} ELSE {})])

(* The inner loop matching one unit of quantity in each iteration. *)
RECURSIVE MatchLevelsByUnit(_)
MatchLevelsByUnit(l) ==
    IF l.bids = <<>> \/ l.asks = <<>> THEN l
    ELSE LET bid == Head(l.bids)
             ask == Head(l.asks)
             quantity == MinOf(1, MinOf(bid.remainingQuantity, ask.remainingQuantity))
             trade == Trade(TradeInfo(bid.orderId, bid.price, quantity),
                            TradeInfo(ask.orderId, ask.price, quantity))
             bid2 == Fill(bid, quantity)
             ask2 == Fill(ask, quantity)
         IN  MatchLevelsByUnit(
                 [bids |-> IF IsFilled(bid2) THEN Tail(l.bids)
                           ELSE <<bid2>> \o Tail(l.bids),
                  asks |-> IF IsFilled(ask2) THEN Tail(l.asks)
                           ELSE <<ask2>> \o Tail(l.asks),
                  trades |-> Append(l.trades, trade),
                  filled |-> l.filled
                               \cup (IF IsFilled(bid2) THEN {bid.orderId} ELSE {})
                               \cup (IF IsFilled(ask2) THEN {ask.orderId} ELSE {})])

(* The inner loop on the two best levels; l is [bids, asks, trades, filled]. *)
RECURSIVE MatchLevels(_)
MatchLevels(l) ==
    IF l.bids = <<>> \/ l.asks = <<>> THEN l
    ELSE LET bid == Head(l.bids)
             ask == Head(l.asks)
             quantity == MinOf(bid.remainingQuantity, ask.remainingQuantity)
             trade == Trade(TradeInfo(bid.orderId, bid.price, quantity),
                            TradeInfo(ask.orderId, ask.price, quantity))
             bid2 == Fill(bid, quantity)
             ask2 == Fill(ask, quantity)
         IN  MatchLevels(
                 [bids |-> IF IsFilled(bid2) THEN Tail(l.bids)
                           ELSE <<bid2>> \o Tail(l.bids),
                  asks |-> IF IsFilled(ask2) THEN Tail(l.asks)
                           ELSE <<ask2>> \o Tail(l.asks),
                  trades |-> Append(l.trades, trade),
                  filled |-> l.filled
                               \cup (IF IsFilled(bid2) THEN {bid.orderId} ELSE {})
                               \cup (IF IsFilled(ask2) THEN {ask.orderId} ELSE {})])

(* The outer loop; r is [ob, trades]. *)
RECURSIVE CrossingLoop(_)
CrossingLoop(r) ==
    IF DOMAIN r.ob.bids = {} \/ DOMAIN r.ob.asks = {} THEN r
    ELSE LET bidPrice == BestBid(r.ob)
             askPrice == BestAsk(r.ob)
         IN  IF bidPrice < askPrice THEN r
             ELSE LET l == MatchLevels([bids |-> r.ob.bids[bidPrice],
                                        asks |-> r.ob.asks[askPrice],
                                        trades |-> r.trades, filled |-> {}])
                      ob2 == [r.ob EXCEPT
                                 !.orders = [id \in (DOMAIN r.ob.orders) \ l.filled
                                                |-> r.ob.orders[id]],
                                 !.bids = IF l.bids = <<>> THEN WithoutKey(@, bidPrice)
                                          ELSE [@ EXCEPT ![bidPrice] = l.bids],
                                 !.asks = IF l.asks = <<>> THEN WithoutKey(@, askPrice)
                                          ELSE [@ EXCEPT ![askPrice] = l.asks]]
                  IN  CrossingLoop([ob |-> ob2, trades |-> l.trades])

(* The sweep looking at the front orders of the best levels alone. *)
CancelFrontImmediateOrCancel(ob) ==
    CancelAll(ob, {id \in DOMAIN ob.orders :
                      /\ ob.orders[id].orderType = "ImmediateOrCancel"
                      /\ \/ /\ DOMAIN ob.bids # {}
                            /\ Head(ob.bids[BestBid(ob)]).orderId = id
                         \/ /\ DOMAIN ob.asks # {}
                            /\ Head(ob.asks[BestAsk(ob)]).orderId = id})

(* The sweep of the ImmediateOrCancel orders left in the index. *)
CancelImmediateOrCancel(ob) ==
    CancelAll(ob, {id \in DOMAIN ob.orders : ob.orders[id].orderType = "ImmediateOrCancel"})

(* The result is [ob, trades, crossed]: the book and the Trades returned,   *)
(* and the book as the crossing loop left it, before the sweep.            *)
SweepResult(r) ==
    [ob |-> CancelImmediateOrCancel(r.ob), trades |-> r.trades, crossed |-> r.ob]

MatchOrders(ob) == SweepResult(CrossingLoop([ob |-> ob, trades |-> <<>>]))

----------------------------------------------------------------------------
(* AddOrder, MatchOrder (the public operations on orders).                 *)

(* The Order object with this id that the book holds. *)
FindOrder(ob, orderId) ==
    LET entry == ob.orders[orderId]
        level == IF entry.side = "Buy" THEN ob.bids[entry.price] ELSE ob.asks[entry.price]
    IN  level[CHOOSE i \in 1..Len(level) : level[i].orderId = orderId]

(* InsertOrder with push_front in the place of push_back. *)
InsertAtFront(ob, order) ==
    LET levels == IF order.side = "Buy" THEN ob.bids ELSE ob.asks
        orders == IF order.price \in DOMAIN levels
                  THEN <<order>> \o levels[order.price] ELSE <<order>>
        index == IF order.orderId \in DOMAIN ob.orders THEN ob.orders
                 ELSE WithKey(ob.orders, order.orderId, OrderEntry(order))
    IN  IF order.side = "Buy"
        THEN [ob EXCEPT !.bids = WithKey(levels, order.price, orders), !.orders = index]
        ELSE [ob EXCEPT !.asks = WithKey(levels, order.price, orders), !.orders = index]

(* InsertOrder without the insert into orders_. *)
InsertUnindexed(ob, order) ==
    LET levels == IF order.side = "Buy" THEN ob.bids ELSE ob.asks
        orders == IF order.price \in DOMAIN levels
                  THEN Append(levels[order.price], order) ELSE <<order>>
    IN  IF order.side = "Buy"
        THEN [ob EXCEPT !.bids = WithKey(levels, order.price, orders)]
        ELSE [ob EXCEPT !.asks = WithKey(levels, order.price, orders)]

(* bids_[price] / asks_[price], push_back and the insert into orders_. *)
InsertOrder(ob, order) ==
    LET levels == IF order.side = "Buy" THEN ob.bids ELSE ob.asks
        orders == IF order.price \in DOMAIN levels
                  THEN Append(levels[order.price], order) ELSE <<order>>
        levels2 == WithKey(levels, order.price, orders)
        index == IF order.orderId \in DOMAIN ob.orders THEN ob.orders
                 ELSE WithKey(ob.orders, order.orderId, OrderEntry(order))
    IN  IF order.side = "Buy"
        THEN [ob EXCEPT !.bids = levels2, !.orders = index]
        ELSE [ob EXCEPT !.asks = levels2, !.orders = index]

(* The state of the incoming order object once the crossing loop is done:  *)
(* the loop erases from the index exactly the orders it filled.            *)
OrderAfterMatch(ob, order) ==
    IF order.orderId \in DOMAIN ob.orders THEN FindOrder(ob, order.orderId)
    ELSE [order EXCEPT !.remainingQuantity = 0]

(* A rejection: no trade, the book and the order as they were. *)
Rejected(ob, order) ==
    [ob |-> ob, order |-> order, trades |-> <<>>, start |-> ob, matched |-> FALSE]

(* The FillOrKill path of AddOrder; f is the result of MatchFillOrKill. *)
FillOrKillResult(ob, f) ==
    [ob |-> f.ob, order |-> f.order, trades |-> f.trades, start |-> ob, matched |-> TRUE]

(* The resting path of AddOrder; m is the result of MatchOrders on the     *)
(* book the order was inserted into.                                       *)
RestingResult(inserted, order, m) ==
    [ob |-> m.ob, order |-> OrderAfterMatch(m.crossed, order), trades |-> m.trades,
     start |-> inserted, matched |-> TRUE]

(* AddConverted letting an ImmediateOrCancel order that cannot match rest. *)
RestUnmatched(ob, order) ==
    IF ValidateOrder(ob, order) # "None" THEN Rejected(ob, order)
    ELSE IF order.orderType = "FillOrKill"
    THEN FillOrKillResult(ob, MatchFillOrKill(ob, order))
    ELSE IF order.orderType = "ImmediateOrCancel" /\ ~CanMatch(ob, order.side, order.price)
    THEN RestingResult(InsertOrder(ob, order), order,
                       [ob |-> InsertOrder(ob, order), trades |-> <<>>,
                        crossed |-> InsertOrder(ob, order)])
    ELSE RestingResult(InsertOrder(ob, order), order, MatchOrders(InsertOrder(ob, order)))

(* AddOrder cancelling what a converted Market order leaves unfilled. *)
CancelConvertedRemainder(r, order) ==
    IF (order.price = PRICE_MAX \/ order.price = PRICE_MIN)
          /\ order.orderId \in DOMAIN r.ob.orders
    THEN [r EXCEPT !.ob = CancelOrder(r.ob, order.orderId)]
    ELSE r

AddConvertedWithoutRemainder(ob, order) ==
    IF ValidateOrder(ob, order) # "None" THEN Rejected(ob, order)
    ELSE IF order.orderType = "ImmediateOrCancel" /\ ~CanMatch(ob, order.side, order.price)
    THEN Rejected(ob, order)
    ELSE IF order.orderType = "FillOrKill"
    THEN FillOrKillResult(ob, MatchFillOrKill(ob, order))
    ELSE CancelConvertedRemainder(
             RestingResult(InsertOrder(ob, order), order, MatchOrders(InsertOrder(ob, order))),
             order)

(* AddOrder once the day check is done and a Market order is converted. *)
AddConverted(ob, order) ==
    IF ValidateOrder(ob, order) # "None" THEN Rejected(ob, order)
    ELSE IF order.orderType = "ImmediateOrCancel" /\ ~CanMatch(ob, order.side, order.price)
    THEN Rejected(ob, order)
    ELSE IF order.orderType = "FillOrKill"
    THEN FillOrKillResult(ob, MatchFillOrKill(ob, order))
    ELSE RestingResult(InsertOrder(ob, order), order, MatchOrders(InsertOrder(ob, order)))

(* The conversion whether or not the opposite side holds an order. *)
ConvertUnconditionally(ob, order) ==
    IF order.side = "Buy" THEN ToGoodTillCancel(order, PRICE_MAX)
    ELSE ToGoodTillCancel(order, PRICE_MIN)

(* The conversion of a Market order against a non-empty opposite side. *)
ConvertMarket(ob, order) ==
    IF order.side = "Buy" /\ DOMAIN ob.asks # {} THEN ToGoodTillCancel(order, PRICE_MAX)
    ELSE IF order.side = "Sell" /\ DOMAIN ob.bids # {} THEN ToGoodTillCancel(order, PRICE_MIN)
    ELSE order

(* AddOrder once the day check is done. *)
AddChecked(ob, order) ==
    IF order.orderType # "Market" THEN AddConverted(ob, order)
    ELSE IF ConvertMarket(ob, order).orderType = "Market" THEN Rejected(ob, order)
    ELSE AddConverted(ob, ConvertMarket(ob, order))

(* The result is [ob, order, trades, start, matched]: the book, the order  *)
(* object the caller passed as the call leaves it, the Trades returned,    *)
(* and for the properties of the matching pass the book as that pass       *)
(* found it (start) and whether the call came to it (matched).             *)
AddOrder(ob, order) == AddChecked(CheckAndResetDay(ob), order)

(* MatchOrder giving every replacement the type GoodTillCancel. *)
ModifyAsGoodTillCancel(ob, modify) ==
    IF modify.orderId \notin DOMAIN ob.orders
    THEN Rejected(ob, ToOrderPointer(modify, "GoodTillCancel"))
    ELSE AddOrder(CancelOrder(ob, modify.orderId),
                  ToOrderPointer(modify, "GoodTillCancel"))

(* MatchOrder adding the replacement when the index has not the id. *)
ModifyOrAdd(ob, modify) ==
    IF modify.orderId \notin DOMAIN ob.orders
    THEN AddOrder(ob, ToOrderPointer(modify, "GoodTillCancel"))
    ELSE AddOrder(CancelOrder(ob, modify.orderId),
                  ToOrderPointer(modify, ob.orders[modify.orderId].orderType))

(* MatchOrder validating the replacement before it cancels the original. *)
ModifyValidatedFirst(ob, modify) ==
    IF modify.orderId \notin DOMAIN ob.orders
    THEN Rejected(ob, ToOrderPointer(modify, "GoodTillCancel"))
    ELSE IF ValidateRulesOnly(ob, ToOrderPointer(modify, ob.orders[modify.orderId].orderType))
               # "None"
    THEN Rejected(ob, ToOrderPointer(modify, ob.orders[modify.orderId].orderType))
    ELSE AddOrder(CancelOrder(ob, modify.orderId),
                  ToOrderPointer(modify, ob.orders[modify.orderId].orderType))

(* MatchOrder once the day check is done.  existingOrder refers to the     *)
(* index entry CancelOrder destroys, and GetOrderType() is read after     *)
(* that, through the erased entry and of an Order the book may have been   *)
(* the last to own: a read of freed memory as those of CancelOrder, which  *)
(* gives the type the order had or kills the process (readFreed).          *)
ModifyChecked(ob, modify) ==
    IF modify.orderId \notin DOMAIN ob.orders
    THEN Rejected(ob, ToOrderPointer(modify, "GoodTillCancel"))
    ELSE AddOrder(CancelOrder(ob, modify.orderId),
                  ToOrderPointer(modify, ob.orders[modify.orderId].orderType))

(* The result is that of the AddOrder of the replacement. *)
MatchOrder(ob, modify) == ModifyChecked(CheckAndResetDay(ob), modify)

Size(ob) == Cardinality(DOMAIN ob.orders)

----------------------------------------------------------------------------
(* The market data feed (ProcessSnapshot, ProcessMarketData).  The latency *)
(* fields of MarketDataStats hold measured wall time and are left out.     *)

ZeroStats ==
    [messagesProcessed |-> 0, newOrders |-> 0, cancellations |-> 0, modifications |-> 0,
     trades |-> 0, snapshots |-> 0, errors |-> 0, sequenceGaps |-> 0]

(* The loop of ProcessSnapshot without the skip of the levels of           *)
(* quantity 0.                                                             *)
RECURSIVE InsertSnapshotLevelsOfAnyQuantity(_, _, _)
InsertSnapshotLevelsOfAnyQuantity(r, levels, side) ==
    IF levels = <<>> THEN r
    ELSE LET order == NewOrder("GoodTillCancel", r.syntheticId, side,
                               Head(levels).price, Head(levels).quantity)
         IN  InsertSnapshotLevelsOfAnyQuantity(
                 [ob |-> InsertOrder(r.ob, order), syntheticId |-> NextId(r.syntheticId)],
                 Tail(levels), side)

(* One loop of ProcessSnapshot; r is [ob, syntheticId]. *)
RECURSIVE InsertSnapshotLevels(_, _, _)
InsertSnapshotLevels(r, levels, side) ==
    IF levels = <<>> THEN r
    ELSE IF Head(levels).quantity = 0 THEN InsertSnapshotLevels(r, Tail(levels), side)
    ELSE LET order == NewOrder("GoodTillCancel", r.syntheticId, side,
                               Head(levels).price, Head(levels).quantity)
         IN  InsertSnapshotLevels(
                 [ob |-> InsertOrder(r.ob, order), syntheticId |-> NextId(r.syntheticId)],
                 Tail(levels), side)

(* ProcessSnapshot without the clearing of the book. *)
ProcessSnapshotOntoBook(ob, msg) ==
    InsertSnapshotLevels(
        InsertSnapshotLevels([ob |-> ob, syntheticId |-> SyntheticIdBase], msg.bids, "Buy"),
        msg.asks, "Sell").ob

(* ProcessSnapshot with syntheticId counting on from the orders the book   *)
(* held instead of starting at the base.                                   *)
ProcessSnapshotContinuingIds(ob, msg) ==
    LET cleared == [ob EXCEPT !.bids = EmptyLevels, !.asks = EmptyLevels,
                              !.orders = [id \in {} |-> 0]]
        first == <<SyntheticIdBase[1], SyntheticIdBase[2] + Cardinality(DOMAIN ob.orders)>>
        withBids == InsertSnapshotLevels([ob |-> cleared, syntheticId |-> first],
                                         msg.bids, "Buy")
    IN  InsertSnapshotLevels(withBids, msg.asks, "Sell").ob

(* ProcessSnapshot running the crossing loop on the book it has built. *)
ProcessSnapshotMatched(ob, msg) ==
    LET cleared == [ob EXCEPT !.bids = EmptyLevels, !.asks = EmptyLevels,
                              !.orders = [id \in {} |-> 0]]
        withBids == InsertSnapshotLevels([ob |-> cleared, syntheticId |-> SyntheticIdBase],
                                         msg.bids, "Buy")
    IN  MatchOrders(InsertSnapshotLevels(withBids, msg.asks, "Sell").ob).ob

ProcessSnapshot(ob, msg) ==
    LET cleared == [ob EXCEPT !.bids = EmptyLevels, !.asks = EmptyLevels,
                              !.orders = [id \in {} |-> 0]]
        withBids == InsertSnapshotLevels([ob |-> cleared, syntheticId |-> SyntheticIdBase],
                                         msg.bids, "Buy")
    IN  InsertSnapshotLevels(withBids, msg.asks, "Sell").ob

(* ProcessMessage with ProcessModify adding the trades MatchOrder returned *)
(* to the trades counter, as ProcessNewOrder does.                         *)
ProcessMessageCountingModifyTrades(f, msg) ==
    LET counted == [f.stats EXCEPT !.messagesProcessed = @ + 1]
        same == [f EXCEPT !.stats = counted, !.result = TRUE]
    IN  CASE msg.type = "NewOrder" ->
               LET r == AddOrder(f.ob, NewOrder(msg.orderType, msg.orderId, msg.side,
                                                msg.price, msg.quantity))
               IN  [same EXCEPT !.ob = r.ob,
                                !.stats = [counted EXCEPT !.newOrders = @ + 1,
                                                          !.trades = @ + Len(r.trades)]]
          [] msg.type = "CancelOrder" ->
               [same EXCEPT !.ob = CancelOrder(f.ob, msg.orderId),
                            !.stats = [counted EXCEPT !.cancellations = @ + 1]]
          [] msg.type = "ModifyOrder" ->
               LET modify == [orderId |-> msg.orderId, side |-> msg.side,
                              price |-> msg.newPrice, quantity |-> msg.newQuantity]
                   r == MatchOrder(f.ob, modify)
               IN  [same EXCEPT !.ob = r.ob,
                                !.stats = [counted EXCEPT !.modifications = @ + 1,
                                                          !.trades = @ + Len(r.trades)]]
          [] msg.type = "Trade" ->
               [same EXCEPT !.stats = [counted EXCEPT !.trades = @ + 1]]
          [] msg.type = "BookSnapshot" ->
               [same EXCEPT !.ob = ProcessSnapshot(f.ob, msg),
                            !.stats = [counted EXCEPT !.snapshots = @ + 1],
                            !.lastSequenceNumber = msg.sequenceNumber,
                            !.isInitialized = TRUE]

(* ProcessMessage reporting the cancel of an id the index has not as a     *)
(* failure: the errors counter in the place of the message counters and    *)
(* the value false.                                                        *)
ProcessMessageReportingUnknownIds(f, msg) ==
    LET counted == [f.stats EXCEPT !.messagesProcessed = @ + 1]
        same == [f EXCEPT !.stats = counted, !.result = TRUE]
    IN  CASE msg.type = "NewOrder" ->
               LET r == AddOrder(f.ob, NewOrder(msg.orderType, msg.orderId, msg.side,
                                                msg.price, msg.quantity))
               IN  [same EXCEPT !.ob = r.ob,
                                !.stats = [counted EXCEPT !.newOrders = @ + 1,
                                                          !.trades = @ + Len(r.trades)]]
          [] msg.type = "CancelOrder" ->
               IF msg.orderId \notin DOMAIN f.ob.orders
               THEN [f EXCEPT !.stats = [f.stats EXCEPT !.errors = @ + 1],
                              !.result = FALSE]
               ELSE [same EXCEPT !.ob = CancelOrder(f.ob, msg.orderId),
                                 !.stats = [counted EXCEPT !.cancellations = @ + 1]]
          [] msg.type = "ModifyOrder" ->
               LET modify == [orderId |-> msg.orderId, side |-> msg.side,
                              price |-> msg.newPrice, quantity |-> msg.newQuantity]
               IN  [same EXCEPT !.ob = MatchOrder(f.ob, modify).ob,
                                !.stats = [counted EXCEPT !.modifications = @ + 1]]
          [] msg.type = "Trade" ->
               [same EXCEPT !.stats = [counted EXCEPT !.trades = @ + 1]]
          [] msg.type = "BookSnapshot" ->
               [same EXCEPT !.ob = ProcessSnapshot(f.ob, msg),
                            !.stats = [counted EXCEPT !.snapshots = @ + 1],
                            !.lastSequenceNumber = msg.sequenceNumber,
                            !.isInitialized = TRUE]

(* ProcessMarketData on the members f holds: f and the result are          *)
(* [ob, stats, lastSequenceNumber, isInitialized, result].                 *)
ProcessMessage(f, msg) ==
    LET counted == [f.stats EXCEPT !.messagesProcessed = @ + 1]
        same == [f EXCEPT !.stats = counted, !.result = TRUE]
    IN  CASE msg.type = "NewOrder" ->
               LET r == AddOrder(f.ob, NewOrder(msg.orderType, msg.orderId, msg.side,
                                                msg.price, msg.quantity))
               IN  [same EXCEPT !.ob = r.ob,
                                !.stats = [counted EXCEPT !.newOrders = @ + 1,
                                                          !.trades = @ + Len(r.trades)]]
          [] msg.type = "CancelOrder" ->
               [same EXCEPT !.ob = CancelOrder(f.ob, msg.orderId),
                            !.stats = [counted EXCEPT !.cancellations = @ + 1]]
          [] msg.type = "ModifyOrder" ->
               LET modify == [orderId |-> msg.orderId, side |-> msg.side,
                              price |-> msg.newPrice, quantity |-> msg.newQuantity]
               IN  [same EXCEPT !.ob = MatchOrder(f.ob, modify).ob,
                                !.stats = [counted EXCEPT !.modifications = @ + 1]]
          [] msg.type = "Trade" ->
               [same EXCEPT !.stats = [counted EXCEPT !.trades = @ + 1]]
          [] msg.type = "BookSnapshot" ->
               [same EXCEPT !.ob = ProcessSnapshot(f.ob, msg),
                            !.stats = [counted EXCEPT !.snapshots = @ + 1],
                            !.lastSequenceNumber = msg.sequenceNumber,
                            !.isInitialized = TRUE]

(* The result is [ob, stats, lastSequenceNumber, isInitialized, result]. *)
ProcessMarketData(ob, msg) ==
    ProcessMessage([ob |-> ob, stats |-> stats_,
                    lastSequenceNumber |-> lastSequenceNumber_,
                    isInitialized |-> isInitialized_, result |-> TRUE], msg)

(* ProcessMarketDataBatch passing over the messages that come before a     *)
(* snapshot of the batch: the snapshot discards the book they leave.       *)
RECURSIVE ProcessMarketDataBatchFromSnapshot(_, _)
ProcessMarketDataBatchFromSnapshot(f, messages) ==
    IF messages = <<>> THEN [feed |-> f, successCount |-> 0]
    ELSE IF \E i \in 2..Len(messages) : messages[i].type = "BookSnapshot"
    THEN ProcessMarketDataBatchFromSnapshot(f, Tail(messages))
    ELSE LET r == ProcessMessage(f, Head(messages))
             rest == ProcessMarketDataBatchFromSnapshot(r, Tail(messages))
         IN  [rest EXCEPT !.successCount = @ + (IF r.result THEN 1 ELSE 0)]

(* The result is [feed, successCount], feed as ProcessMessage leaves it. *)
RECURSIVE ProcessMarketDataBatch(_, _)
ProcessMarketDataBatch(f, messages) ==
    IF messages = <<>> THEN [feed |-> f, successCount |-> 0]
    ELSE LET r == ProcessMessage(f, Head(messages))
             rest == ProcessMarketDataBatch(r, Tail(messages))
         IN  [rest EXCEPT !.successCount = @ + (IF r.result THEN 1 ELSE 0)]

----------------------------------------------------------------------------
(* The inputs of the model. *)

OrderIds == {ClientId(n) : n \in 1..MaxOrderId}
Prices == 1..MaxPrice
Quantities == 1..MaxQuantity

LimitOrders ==
    {NewOrder(t, id, s, p, q) :
        t \in OrderTypes \ {"Market"}, id \in OrderIds, s \in Sides,
        p \in Prices, q \in Quantities}

MarketOrders ==
    {NewOrder("Market", id, s, InvalidPrice, q) :
        id \in OrderIds, s \in Sides, q \in Quantities}

Orders == LimitOrders \cup MarketOrders

Modifications ==
    [orderId : OrderIds, side : Sides, price : Prices, quantity : Quantities]

(* A snapshot level is absent (quantity 0, which ProcessSnapshot skips) or *)
(* holds the largest quantity.                                             *)
SnapshotLevels == [price : Prices, quantity : {0, MaxQuantity}]

SnapshotSides == {<<>>} \cup {<<l>> : l \in SnapshotLevels}

Messages ==
    [type : {"NewOrder"}, orderId : OrderIds, side : Sides, price : Prices,
     quantity : Quantities, orderType : OrderTypes]
    \cup [type : {"CancelOrder"}, orderId : OrderIds]
    \cup [type : {"ModifyOrder"}, orderId : OrderIds, side : Sides,
          newPrice : Prices, newQuantity : Quantities]
    \cup [type : {"Trade"}]
    \cup [type : {"BookSnapshot"}, bids : SnapshotSides, asks : SnapshotSides,
          sequenceNumber : 1..MaxSequenceNumber]

(* The zones: no change of the clock, the clock set back an hour at 03:00  *)
(* of day 0 and the clock set forward an hour at 02:00 of day 0.           *)
NoClockChange == [at |-> 0, shift |-> 0]
ClockSetBack == [at |-> 3 * MinutesPerHour, shift |-> -MinutesPerHour]
ClockSetForward == [at |-> 2 * MinutesPerHour, shift |-> MinutesPerHour]
ClockChanges == {NoClockChange, ClockSetBack, ClockSetForward}

(* The instant at which the wall clock shows hour and minute of a day; of  *)
(* an hour shown twice the second time, of an hour skipped the instant an  *)
(* hour before the clock shows the hour that follows.                      *)
At(day, hour, minute) ==
    LET wall == day * MinutesPerDay + hour * MinutesPerHour + minute
    IN  IF wall - clockChange.shift >= clockChange.at
        THEN wall - clockChange.shift
        ELSE wall

ConstructionTime == At(0, DefaultResetHour, DefaultResetMinute - 1)
FirstReset == At(0, DefaultResetHour, DefaultResetMinute)

----------------------------------------------------------------------------
(* The state after construction, and the calls. *)

Init ==
    /\ clockChange = NoClockChange
    /\ killed = FALSE
    /\ nextReads = <<>>
    /\ bids_ = EmptyLevels
    /\ asks_ = EmptyLevels
    /\ orders_ = [id \in {} |-> 0]
    /\ now = ConstructionTime
    /\ lastDayReset_ = now
    /\ dayResetHour_ = DefaultResetHour
    /\ dayResetMinute_ = DefaultResetMinute
    /\ stats_ = ZeroStats
    /\ lastSequenceNumber_ = 0
    /\ isInitialized_ = FALSE
    /\ exchangeRules_ = DefaultRules

(* What a call that computed the book ob may come to: it returns, or, when *)
(* it has read freed memory, the process may be killed on the read.        *)
Outcomes(ob) == IF ob.readFreed THEN {"returned", "killed"} ELSE {"returned"}

(* The call that computed the book ob returns whatever the allocator: it   *)
(* has read no freed memory.                                               *)
Returns(ob) == Outcomes(ob) = {"returned"}

(* The clock once the call that computed the book ob has read it: the     *)
(* next read gives the reading that follows those the call made, and the   *)
(* reads to come after it are those that are left.                         *)
NowAfter(ob) == Reading(ob.reads + 1)
LaterAfter(ob) ==
    IF ob.reads >= Len(nextReads) THEN <<>>
    ELSE SubSeq(nextReads, ob.reads + 1, Len(nextReads))

(* The members a call leaves.  A killed process has no book and takes no   *)
(* more calls: its containers are left empty.                              *)
SetBook(ob) ==
    /\ ~killed
    /\ \E outcome \in Outcomes(ob) :
          /\ killed' = (outcome = "killed")
          /\ now' = IF outcome = "killed" THEN now ELSE NowAfter(ob)
          /\ nextReads' = IF outcome = "killed" THEN <<>> ELSE LaterAfter(ob)
          /\ bids_' = IF outcome = "killed" THEN EmptyLevels ELSE ob.bids
          /\ asks_' = IF outcome = "killed" THEN EmptyLevels ELSE ob.asks
          /\ orders_' = IF outcome = "killed" THEN [id \in {} |-> 0] ELSE ob.orders
          /\ lastDayReset_' = IF outcome = "killed" THEN lastDayReset_ ELSE ob.lastDayReset

AddOrderCall(order) ==
    LET r == AddOrder(Self, order)
    IN  /\ SetBook(r.ob)
        /\ UNCHANGED <<clockChange, dayResetHour_, dayResetMinute_, stats_, lastSequenceNumber_,
                       isInitialized_, exchangeRules_>>

CancelOrderCall(orderId) ==
    /\ SetBook(CancelOrder(Self, orderId))
    /\ UNCHANGED <<clockChange, dayResetHour_, dayResetMinute_, stats_, lastSequenceNumber_,
                   isInitialized_, exchangeRules_>>

MatchOrderCall(modify) ==
    LET r == MatchOrder(Self, modify)
    IN  /\ SetBook(r.ob)
        /\ UNCHANGED <<clockChange, dayResetHour_, dayResetMinute_, stats_, lastSequenceNumber_,
                       isInitialized_, exchangeRules_>>

(* The members a feed message leaves; r is the result of ProcessMarketData. *)
SetFeed(r) ==
    /\ SetBook(r.ob)
    /\ stats_' = r.stats
    /\ lastSequenceNumber_' = r.lastSequenceNumber
    /\ isInitialized_' = r.isInitialized

ProcessMarketDataCall(msg) ==
    /\ stats_.messagesProcessed < MaxMessages
    /\ SetFeed(ProcessMarketData(Self, msg))
    /\ UNCHANGED <<clockChange, dayResetHour_, dayResetMinute_, exchangeRules_>>

Tick(t) ==
    /\ ~killed
    /\ t > now
    /\ now' = t
    /\ nextReads' = <<>>
    /\ UNCHANGED <<bids_, asks_, orders_, lastDayReset_, dayResetHour_, dayResetMinute_,
                   stats_, lastSequenceNumber_, isInitialized_, exchangeRules_,
                   clockChange, killed>>

(* The clock is about to move: the reads after the next one will give the  *)
(* instants of ahead, which never go back and reach a later instant.       *)
ClockAhead(ahead) ==
    /\ ~killed
    /\ nextReads = <<>>
    /\ ahead # <<>>
    /\ \A i \in 1..Len(ahead) : ahead[i] >= (IF i = 1 THEN now ELSE ahead[i - 1])
    /\ ahead[Len(ahead)] > now
    /\ nextReads' = ahead
    /\ UNCHANGED <<bids_, asks_, orders_, lastDayReset_, dayResetHour_, dayResetMinute_,
                   stats_, lastSequenceNumber_, isInitialized_, exchangeRules_, now,
                   clockChange, killed>>

Next ==
    \/ \E order \in Orders : AddOrderCall(order)
    \/ \E orderId \in OrderIds : CancelOrderCall(orderId)
    \/ \E modify \in Modifications : MatchOrderCall(modify)
    \/ \E msg \in Messages : ProcessMarketDataCall(msg)
    \/ \E t \in {FirstReset} : Tick(t)
    \/ \E t \in {FirstReset} : ClockAhead(<<t>>)

Spec == Init /\ [][Next]_vars

----------------------------------------------------------------------------
(* Properties.  The book of a state is Self; the properties of a call are  *)
(* stated of the result the operation gives in that state for each input.  *)

(* The places <<price, i>> of the orders resting in a side. *)
Positions(levels) ==
    UNION {{<<p, i>> : i \in 1..Len(levels[p])} : p \in DOMAIN levels}

(* The orders resting in a side, and their ids. *)
Resting(levels) == {levels[pos[1]][pos[2]] : pos \in Positions(levels)}
RestingIds(levels) == {o.orderId : o \in Resting(levels)}

(* How many resting orders of the book carry this id. *)
Occurrences(ob, id) ==
    Cardinality({pos \in Positions(ob.bids) : ob.bids[pos[1]][pos[2]].orderId = id})
    + Cardinality({pos \in Positions(ob.asks) : ob.asks[pos[1]][pos[2]].orderId = id})

(* The best bid is at or above the best ask. *)
Crossed(ob) ==
    /\ DOMAIN ob.bids # {}
    /\ DOMAIN ob.asks # {}
    /\ BestBid(ob) >= BestAsk(ob)

(* C1: after any sequence of public operations, when both sides are        *)
(* non-empty the best bid is strictly below the best ask.                  *)
NoCrossedBook == ~Crossed(Self)

(* The index entry of an id finds one order, on the entry's side and at    *)
(* the entry's price.                                                      *)
EntryLocatesOrder(ob, id) ==
    LET entry == ob.orders[id]
        levels == IF entry.side = "Buy" THEN ob.bids ELSE ob.asks
    IN  /\ Occurrences(ob, id) = 1
        /\ entry.price \in DOMAIN levels
        /\ \E i \in 1..Len(levels[entry.price]) :
              /\ levels[entry.price][i].orderId = id
              /\ levels[entry.price][i].side = entry.side
              /\ levels[entry.price][i].price = entry.price

(* C2: after any sequence of public operations, every id of the index      *)
(* denotes exactly one resting order, found on the side and at the price   *)
(* level of that order's own side and price, every resting order has an    *)
(* index entry, and Size() is the number of resting orders of both sides.  *)
IndexConsistent ==
    /\ \A id \in DOMAIN orders_ : EntryLocatesOrder(Self, id)
    /\ RestingIds(bids_) \cup RestingIds(asks_) \subseteq DOMAIN orders_
    /\ \A pos \in Positions(bids_) :
          bids_[pos[1]][pos[2]].side = "Buy" /\ bids_[pos[1]][pos[2]].price = pos[1]
    /\ \A pos \in Positions(asks_) :
          asks_[pos[1]][pos[2]].side = "Sell" /\ asks_[pos[1]][pos[2]].price = pos[1]
    /\ Size(Self) = Cardinality(Positions(bids_)) + Cardinality(Positions(asks_))

(* Orders rest on both sides, two of them in one level, after a snapshot   *)
(* and a client order.                                                     *)
IndexConsistentWitness ==
    /\ isInitialized_
    /\ Size(Self) = 3
    /\ DOMAIN bids_ # {}
    /\ \E p \in DOMAIN asks_ : Len(asks_[p]) = 2

(* The prices at which the index has an order of this side. *)
IndexedPrices(ob, side) ==
    {ob.orders[id].price : id \in {x \in DOMAIN ob.orders : ob.orders[x].side = side}}

(* C3: after any sequence of public operations, a price level exists on a  *)
(* side if and only if an order rests at that price: no level is empty.    *)
NoEmptyLevel ==
    /\ \A p \in DOMAIN bids_ : bids_[p] # <<>>
    /\ \A p \in DOMAIN asks_ : asks_[p] # <<>>
    /\ DOMAIN bids_ = IndexedPrices(Self, "Buy")
    /\ DOMAIN asks_ = IndexedPrices(Self, "Sell")

(* A level holds one order and two operations empty it: the cancellation   *)
(* of that order, and an incoming order that fills it.                     *)
NoEmptyLevelWitness ==
    \E p \in DOMAIN asks_ :
        /\ Len(asks_[p]) = 1
        /\ p \notin DOMAIN CancelOrder(Self, asks_[p][1].orderId).asks
        /\ \E o \in Orders :
              /\ AddOrder(Self, o).trades # <<>>
              /\ p \notin DOMAIN AddOrder(Self, o).ob.asks

----------------------------------------------------------------------------
(* The matching pass of a call: r.start is the book as the pass found it,  *)
(* r.trades the Trades in the order they were made, r.ob the book left.    *)

Levels(ob, side) == IF side = "Buy" THEN ob.bids ELSE ob.asks
Opposite(side) == IF side = "Buy" THEN "Sell" ELSE "Buy"

(* The id a trade names on a side. *)
TradeIdOn(trade, side) == IF side = "Buy" THEN trade.bid.orderId ELSE trade.ask.orderId

(* The quantity the first n trades gave the order of this id on this side. *)
FilledOf(trades, n, side, id) ==
    SumSeq([j \in 1..n |-> IF TradeIdOn(trades[j], side) = id
                           THEN trades[j].bid.quantity ELSE 0])

SumQuantity(trades) == SumSeq([j \in 1..Len(trades) |-> trades[j].bid.quantity])

IdsOf(level) == [i \in 1..Len(level) |-> level[i].orderId]

(* The ids of s that are in S, in the order of s. *)
Restrict(s, S) ==
    LET Test(id) == id \in S
    IN  SelectSeq(s, Test)

(* The level of a price, empty when the side has none. *)
LevelAt(levels, p) == IF p \in DOMAIN levels THEN levels[p] ELSE <<>>

(* The orders that stay from book a to book b keep their level and their   *)
(* order in it, and b has no order at a price besides them, but for the    *)
(* order of id incoming.                                                   *)
QueueKept(a, b, incoming) ==
    \A side \in Sides : \A p \in DOMAIN Levels(b, side) :
        LET kept == RestingIds(Levels(b, side)) \ {incoming}
        IN  Restrict(IdsOf(Levels(b, side)[p]), kept)
              = Restrict(IdsOf(LevelAt(Levels(a, side), p)), kept)

(* The order the call rests is the last of its level. *)
ArrivesLast(r) ==
    LET level == Levels(r.start, r.order.side)[r.order.price]
    IN  level[Len(level)].orderId = r.order.orderId

(* No order of a level is filled while one ahead of it in the level has    *)
(* remaining quantity.                                                     *)
FifoFills(start, trades) ==
    \A k \in 1..Len(trades) : \A side \in Sides :
        \A p \in DOMAIN Levels(start, side) :
            \A j \in 1..Len(Levels(start, side)[p]) :
                Levels(start, side)[p][j].orderId = TradeIdOn(trades[k], side)
                => \A i \in 1..(j - 1) :
                      FilledOf(trades, k - 1, side, Levels(start, side)[p][i].orderId)
                        = Levels(start, side)[p][i].remainingQuantity

IsBetter(side, a, b) == IF side = "Buy" THEN a > b ELSE a < b

(* No order is filled while one of its side at a better price has          *)
(* remaining quantity.                                                     *)
BestPriceFirst(start, trades) ==
    \A k \in 1..Len(trades) : \A side \in Sides :
        \A x \in Resting(Levels(start, side)) : \A y \in Resting(Levels(start, side)) :
            (x.orderId = TradeIdOn(trades[k], side) /\ IsBetter(side, y.price, x.price))
            => FilledOf(trades, k - 1, side, y.orderId) = y.remainingQuantity

(* The properties of time priority in one call. *)
TimePriorityIn(r) ==
    /\ QueueKept(Self, r.start, r.order.orderId)
    /\ (r.matched /\ r.order.orderType # "FillOrKill") => ArrivesLast(r)
    /\ FifoFills(r.start, r.trades)
    /\ QueueKept(r.start, r.ob, r.order.orderId)

(* C4: among the orders of a price level the one accepted earlier is ahead *)
(* in the queue, and every match against the level, by the crossing loop   *)
(* or by a FillOrKill walk, consumes it first: an order is appended at the *)
(* back, no order is filled while one ahead has remaining quantity, and no *)
(* operation changes the order of those that stay.                         *)
TimePriority ==
    /\ \A o \in Orders : TimePriorityIn(AddOrder(Self, o))
    /\ \A m \in Modifications : TimePriorityIn(MatchOrder(Self, m))
    /\ \A id \in OrderIds : QueueKept(Self, CancelOrder(Self, id), id)

(* The call fills the first two orders of a level, the second one partly,  *)
(* and the second one stays at the head of the level.                      *)
TwoOfLevelFilled(r) ==
    \E side \in Sides : \E p \in DOMAIN Levels(r.start, side) :
        LET level == Levels(r.start, side)[p]
        IN  /\ Len(level) >= 2
            /\ level[1].orderId # r.order.orderId
            /\ level[2].orderId # r.order.orderId
            /\ FilledOf(r.trades, Len(r.trades), side, level[1].orderId)
                 = level[1].remainingQuantity
            /\ FilledOf(r.trades, Len(r.trades), side, level[2].orderId) = 1
            /\ level[2].remainingQuantity = 2
            /\ p \in DOMAIN Levels(r.ob, side)
            /\ Levels(r.ob, side)[p][1].orderId = level[2].orderId

(* Both the crossing loop and a FillOrKill walk go through a level of two. *)
TimePriorityWitness ==
    /\ \E o \in Orders : o.orderType = "GoodTillCancel" /\ TwoOfLevelFilled(AddOrder(Self, o))
    /\ \E o \in Orders : o.orderType = "FillOrKill" /\ TwoOfLevelFilled(AddOrder(Self, o))

(* C5: an incoming order that crosses several resting price levels         *)
(* consumes the best-priced level first: no resting order is filled while  *)
(* an order of its side at a better price has remaining quantity.          *)
PricePriority ==
    /\ \A o \in Orders : BestPriceFirst(AddOrder(Self, o).start, AddOrder(Self, o).trades)
    /\ \A m \in Modifications :
          BestPriceFirst(MatchOrder(Self, m).start, MatchOrder(Self, m).trades)

(* The call trades at two prices of the opposite side. *)
TwoLevelsCrossed(r) ==
    \E j \in 1..Len(r.trades) : \E k \in 1..Len(r.trades) :
        IF r.order.side = "Buy" THEN r.trades[j].ask.price < r.trades[k].ask.price
        ELSE r.trades[j].bid.price > r.trades[k].bid.price

(* A buy and a sell cross two levels in the crossing loop, and a           *)
(* FillOrKill order crosses two levels.                                    *)
PricePriorityWitness ==
    /\ \E o \in Orders :
          o.orderType = "GoodTillCancel" /\ o.side = "Buy" /\ TwoLevelsCrossed(AddOrder(Self, o))
    /\ \E o \in Orders : o.orderType = "FillOrKill" /\ TwoLevelsCrossed(AddOrder(Self, o))

----------------------------------------------------------------------------
(* The quantities of a call. *)

RECURSIVE SumRemaining(_)
SumRemaining(S) ==
    IF S = {} THEN 0
    ELSE LET x == CHOOSE y \in S : TRUE
         IN  x.remainingQuantity + SumRemaining(S \ {x})

(* The remaining quantity of the orders resting on the side opposite to    *)
(* the order, and of those at prices the order's limit reaches.            *)
OppositeQuantity(ob, order) == SumRemaining(Resting(Levels(ob, Opposite(order.side))))

CrossableQuantity(ob, order) ==
    SumRemaining({x \in Resting(Levels(ob, Opposite(order.side))) :
                     IF order.side = "Buy" THEN x.price <= order.price
                     ELSE x.price >= order.price})

(* The quantity the call executed of the order passed to it. *)
Executed(o, r) == o.initialQuantity - r.order.remainingQuantity

Conserves(o, r) == SumQuantity(r.trades) = Executed(o, r)

(* C6: for every AddOrder(order) call made in any reachable state of the   *)
(* book, the quantities of the Trades it returns sum to the initial        *)
(* quantity of the order less its remaining quantity after the call.       *)
QuantityConserved == \A o \in Orders : Conserves(o, AddOrder(Self, o))

(* The books hold the same orders in the same places, and have the same    *)
(* mark of the day reset.                                                  *)
SameBook(a, b) == a.bids = b.bids /\ a.asks = b.asks /\ a.orders = b.orders
SameMembers(a, b) == SameBook(a, b) /\ a.lastDayReset = b.lastDayReset

(* No order of the book is a FillOrKill order. *)
NoFillOrKillRests(ob) ==
    \A x \in Resting(ob.bids) \cup Resting(ob.asks) : x.orderType # "FillOrKill"

(* C7: when no day reset fires during the call, an AddOrder of a           *)
(* FillOrKill order that returns no Trades leaves the book as it was, and  *)
(* the order does not rest.                                                *)
FillOrKillAtomic ==
    \A o \in Orders :
        (o.orderType = "FillOrKill" /\ ~ShouldResetDay(Self)
            /\ AddOrder(Self, o).trades = <<>>)
        => /\ SameMembers(AddOrder(Self, o).ob, Self)
           /\ NoFillOrKillRests(AddOrder(Self, o).ob)

(* A valid FillOrKill order reaches part of its quantity on the opposite   *)
(* side, no reset is due, and the call returns no Trades.                  *)
FillOrKillAtomicWitness ==
    \E o \in Orders :
        /\ o.orderType = "FillOrKill"
        /\ ~ShouldResetDay(Self)
        /\ ValidateOrder(Self, o) = "None"
        /\ CrossableQuantity(Self, o) > 0
        /\ CrossableQuantity(Self, o) < o.initialQuantity
        /\ AddOrder(Self, o).trades = <<>>

----------------------------------------------------------------------------
(* The book a sequence of trades leaves of the side it consumed. *)

(* A level with the fills of the trades taken from its orders, and the     *)
(* orders they filled taken out.                                           *)
FilledLevel(level, trades, side) ==
    LET applied == [i \in 1..Len(level) |->
                       [level[i] EXCEPT !.remainingQuantity =
                           @ - FilledOf(trades, Len(trades), side, level[i].orderId)]]
        Test(x) == x.remainingQuantity > 0
    IN  SelectSeq(applied, Test)

AfterFills(levels, trades, side) ==
    [p \in {q \in DOMAIN levels : FilledLevel(levels[q], trades, side) # <<>>}
        |-> FilledLevel(levels[p], trades, side)]

(* The ids of the resting orders the trades filled. *)
FilledIds(levels, trades, side) ==
    {x.orderId : x \in {y \in Resting(levels) :
        FilledOf(trades, Len(trades), side, y.orderId) = y.remainingQuantity}}

(* What the claim says of the call r of a FillOrKill order o on book ob. *)
FillOrKillOutcome(ob, o, r) ==
    /\ r.trades # <<>> <=> CrossableQuantity(ob, o) >= o.initialQuantity
    /\ r.trades # <<>> =>
          /\ SumQuantity(r.trades) = o.initialQuantity
          /\ BestPriceFirst(ob, r.trades)
          /\ FifoFills(ob, r.trades)
          /\ Levels(r.ob, Opposite(o.side))
               = AfterFills(Levels(ob, Opposite(o.side)), r.trades, Opposite(o.side))
          /\ Levels(r.ob, o.side) = Levels(ob, o.side)
          /\ DOMAIN r.ob.orders
               = (DOMAIN ob.orders)
                    \ FilledIds(Levels(ob, Opposite(o.side)), r.trades, Opposite(o.side))
    /\ o.orderId \notin DOMAIN r.ob.orders
    /\ Occurrences(r.ob, o.orderId) = 0

(* C8 as stated: an admissible FillOrKill order trades if and only if the  *)
(* remaining quantity of the opposite-side resting orders at crossable     *)
(* prices is at least its quantity; then the Trades sum to its quantity,   *)
(* resting orders are consumed best price first and FIFO in a level, each  *)
(* filled resting order leaves its level and the index, a partly filled    *)
(* last one keeps its place with less remaining; the order never rests.    *)
FillOrKillExecutes ==
    \A o \in Orders :
        (o.orderType = "FillOrKill" /\ ValidateOrder(Self, o) = "None")
        => /\ Returns(AddOrder(Self, o).ob)
           /\ FillOrKillOutcome(Self, o, AddOrder(Self, o))

(* C8 for the calls that return, during which no day reset fires: the      *)
(* same, of the Trades and the book those calls give.                      *)
FillOrKillExecutesNoReset ==
    \A o \in Orders :
        (o.orderType = "FillOrKill" /\ ValidateOrder(Self, o) = "None"
            /\ ~ShouldResetDay(Self))
        => FillOrKillOutcome(Self, o, AddOrder(Self, o))

(* No reset is due and a FillOrKill order fills one resting order and part *)
(* of the next.                                                            *)
FillOrKillExecutesWitness ==
    \E o \in Orders :
        /\ o.orderType = "FillOrKill"
        /\ ValidateOrder(Self, o) = "None"
        /\ ~ShouldResetDay(Self)
        /\ CrossableQuantity(Self, o) > o.initialQuantity
        /\ Len(AddOrder(Self, o).trades) = 2

(* C9: an admissible ImmediateOrCancel order that can match trades the     *)
(* lesser of its quantity and the remaining quantity of the opposite-side  *)
(* resting orders at crossable prices, and is not in the book after the    *)
(* call.  The book is the one the call finds once its day check is done.   *)
ImmediateOrCancelFill ==
    \A o \in Orders :
        (o.orderType = "ImmediateOrCancel"
            /\ ValidateOrder(CheckAndResetDay(Self), o) = "None"
            /\ CanMatch(CheckAndResetDay(Self), o.side, o.price))
        => /\ Executed(o, AddOrder(Self, o))
                = MinOf(o.initialQuantity, CrossableQuantity(CheckAndResetDay(Self), o))
           /\ SumQuantity(AddOrder(Self, o).trades) = Executed(o, AddOrder(Self, o))
           /\ o.orderId \notin DOMAIN AddOrder(Self, o).ob.orders
           /\ Occurrences(AddOrder(Self, o).ob, o.orderId) = 0

(* C10: AddOrder of a Market order with an admissible quantity and a fresh *)
(* id, when the opposite side is non-empty, converts it to GoodTillCancel  *)
(* at PRICE_MAX for a buy and PRICE_MIN for a sell, and the Trades         *)
(* returned sum to the lesser of its quantity and the remaining quantity   *)
(* of the opposite side.  The book is the one the call finds once its day  *)
(* check is done.                                                          *)
MarketOrderFill ==
    \A o \in Orders :
        (o.orderType = "Market"
            /\ IsValidQuantity(exchangeRules_, o.initialQuantity)
            /\ o.orderId \notin DOMAIN CheckAndResetDay(Self).orders
            /\ DOMAIN Levels(CheckAndResetDay(Self), Opposite(o.side)) # {})
        => /\ AddOrder(Self, o).order.orderType = "GoodTillCancel"
           /\ AddOrder(Self, o).order.price
                = (IF o.side = "Buy" THEN PRICE_MAX ELSE PRICE_MIN)
           /\ SumQuantity(AddOrder(Self, o).trades)
                = MinOf(o.initialQuantity, OppositeQuantity(CheckAndResetDay(Self), o))

----------------------------------------------------------------------------
(* Modification and cancellation. *)

(* CancelOrder(id) followed by AddOrder of a new order with the id, the    *)
(* type of the resting original and the side, price and quantity of the    *)
(* modification.  The AddOrder is made when that of MatchOrder is: its day *)
(* check is the second read of the clock.                                  *)
CancelThenAdd(ob, modify) ==
    AddOrder([CancelOrder(ob, modify.orderId) EXCEPT !.reads = 1],
             ToOrderPointer(modify, ob.orders[modify.orderId].orderType))

(* The level of the book in which the index has this id. *)
LevelOf(ob, id) ==
    IF ob.orders[id].side = "Buy" THEN ob.bids[ob.orders[id].price]
    ELSE ob.asks[ob.orders[id].price]

(* If the id rests in the book it is the last of its level's queue. *)
RestsLast(ob, id) ==
    id \in DOMAIN ob.orders => LevelOf(ob, id)[Len(LevelOf(ob, id))].orderId = id

ModifyReplaces(ob, modify) ==
    /\ SameMembers(MatchOrder(ob, modify).ob, CancelThenAdd(ob, modify).ob)
    /\ MatchOrder(ob, modify).trades = CancelThenAdd(ob, modify).trades
    /\ RestsLast(MatchOrder(ob, modify).ob, modify.orderId)

(* C11 as stated: MatchOrder of a resting id has the effect and returns    *)
(* the Trades of CancelOrder(id) followed by AddOrder of a new order with  *)
(* that id, the original's type and the modification's side, price and     *)
(* quantity, and a replacement that rests is the last of its level.        *)
ModifyIsCancelAndReplace ==
    \A modify \in Modifications :
        modify.orderId \in DOMAIN orders_
        => /\ Returns(MatchOrder(Self, modify).ob)
           /\ ModifyReplaces(Self, modify)

(* C11 for the calls that return: when the day check MatchOrder begins     *)
(* with does not fire, MatchOrder of a resting id has the effect and       *)
(* returns the Trades of CancelOrder(id) followed by AddOrder of a new     *)
(* order with that id, the original's type and the modification's side,    *)
(* price and quantity, whether or not the day check of that AddOrder       *)
(* fires, and a replacement that rests is the last of its level, behind    *)
(* the orders that were queued behind the original.                        *)
ModifyIsCancelAndReplaceNoReset ==
    \A modify \in Modifications :
        (modify.orderId \in DOMAIN orders_ /\ ~ShouldResetDay(Self))
        => ModifyReplaces(Self, modify)

(* A GoodForDay order is first of a level of two, and its modification to  *)
(* the side, price and quantity it has leaves it a GoodForDay order behind *)
(* the other.                                                              *)
ModifyIsCancelAndReplaceWitness ==
    \E modify \in Modifications :
        /\ ~ShouldResetDay(Self)
        /\ modify.orderId \in DOMAIN orders_
        /\ orders_[modify.orderId] = [orderType |-> "GoodForDay", side |-> modify.side,
                                      price |-> modify.price]
        /\ Len(LevelOf(Self, modify.orderId)) = 2
        /\ LevelOf(Self, modify.orderId)[1].orderId = modify.orderId
        /\ LevelOf(Self, modify.orderId)[1].remainingQuantity = modify.quantity
        /\ MatchOrder(Self, modify).trades = <<>>
        /\ LevelOf(MatchOrder(Self, modify).ob, modify.orderId)
              = <<LevelOf(Self, modify.orderId)[2],
                  ToOrderPointer(modify, "GoodForDay")>>

(* The queue of a level without the order of this id, and the levels of a  *)
(* side without it: a level it alone held is gone.                         *)
WithoutOrder(level, id) ==
    LET Keep(o) == o.orderId # id
    IN  SelectSeq(level, Keep)

LevelsWithout(levels, id) ==
    [p \in {q \in DOMAIN levels : WithoutOrder(levels[q], id) # <<>>}
        |-> WithoutOrder(levels[p], id)]

CancelRemoves(ob, id) ==
    /\ Size(CancelOrder(ob, id)) = Size(ob) - 1
    /\ DOMAIN CancelOrder(ob, id).orders = (DOMAIN ob.orders) \ {id}
    /\ \A x \in (DOMAIN ob.orders) \ {id} : CancelOrder(ob, id).orders[x] = ob.orders[x]
    /\ CancelOrder(ob, id).bids = LevelsWithout(ob.bids, id)
    /\ CancelOrder(ob, id).asks = LevelsWithout(ob.asks, id)
    /\ Cardinality(Positions(CancelOrder(ob, id).bids))
          + Cardinality(Positions(CancelOrder(ob, id).asks))
       = Cardinality(Positions(ob.bids)) + Cardinality(Positions(ob.asks)) - 1
    /\ CancelOrder(ob, id).lastDayReset = ob.lastDayReset

(* C12: CancelOrder of a resting id removes exactly that order: the call   *)
(* returns, Size() decreases by one, the order's level loses only that     *)
(* order and is gone if it held no other, and every other order keeps its  *)
(* side, price, remaining quantity and place in its queue; none is filled. *)
CancelRemovesExactlyOne ==
    \A id \in DOMAIN orders_ :
        /\ Returns(CancelOrder(Self, id))
        /\ CancelRemoves(Self, id)

(* C12 for the calls that return: the book CancelOrder of a resting id     *)
(* leaves is the book without that order.                                  *)
CancelRemovesWhenReturned ==
    \A id \in DOMAIN orders_ : CancelRemoves(Self, id)

(* One order is first of a level of two and another is alone in its level; *)
(* cancelling the first leaves the level to the second, cancelling the     *)
(* other removes its level.                                                *)
CancelRemovesExactlyOneWitness ==
    \E a, b \in DOMAIN orders_ :
        /\ Len(LevelOf(Self, a)) = 2
        /\ LevelOf(Self, a)[1].orderId = a
        /\ LevelAt(Levels(CancelOrder(Self, a), orders_[a].side), orders_[a].price)
              = <<LevelOf(Self, a)[2]>>
        /\ Len(LevelOf(Self, b)) = 1
        /\ orders_[b].price
              \notin DOMAIN Levels(CancelOrder(Self, b), orders_[b].side)

----------------------------------------------------------------------------
(* Rejections. *)

(* The two books hold the same levels, orders and index entries. *)
(* The call returns no Trades and leaves the book as it found it. *)
RejectsUnchanged(ob, order) ==
    /\ AddOrder(ob, order).trades = <<>>
    /\ SameBook(AddOrder(ob, order).ob, ob)

(* C13 as stated: AddOrder of an order whose id is in the index returns no *)
(* Trades and leaves every order, level and index entry as it was,         *)
(* whatever the type, side, price and quantity of the order.               *)
DuplicateRejected ==
    \A o \in Orders : o.orderId \in DOMAIN orders_ => RejectsUnchanged(Self, o)

(* C13: when no day reset fires during the call, AddOrder of an order      *)
(* whose id is in the index returns no Trades and leaves every order,      *)
(* level and index entry as it was, whatever the type, side, price and     *)
(* quantity of the order.                                                  *)
DuplicateRejectedNoReset ==
    \A o \in Orders :
        (o.orderId \in DOMAIN orders_ /\ ~ShouldResetDay(Self))
        => RejectsUnchanged(Self, o)

(* An order whose id rests on its own side and whose price reaches the     *)
(* opposite side is rejected: it would have traded under another id.       *)
DuplicateRejectedWitness ==
    \E o \in LimitOrders :
        /\ o.orderId \in DOMAIN orders_
        /\ orders_[o.orderId].side = o.side
        /\ ~ShouldResetDay(Self)
        /\ CanMatch(Self, o.side, o.price)
        /\ ValidateOrder(Self, o) = "DuplicateOrderId"
        /\ RejectsUnchanged(Self, o)

----------------------------------------------------------------------------
(* The book under exchange rules the venue sets (SetExchangeRules), with   *)
(* orders at prices and quantities the rules refuse.                       *)

(* Rules with a tick and a lot of 2, with a minimum quantity and a minimum *)
(* notional, and with a maximum quantity below the largest quantity.       *)
RuleSets ==
    {DefaultRules,
     [DefaultRules EXCEPT !.tickSize = 2, !.lotSize = 2],
     [DefaultRules EXCEPT !.minQuantity = 2, !.minNotional = 3],
     [DefaultRules EXCEPT !.maxQuantity = 1]}

SetExchangeRules(rules) ==
    /\ ~killed
    /\ exchangeRules_' = rules
    /\ UNCHANGED <<bids_, asks_, orders_, lastDayReset_, dayResetHour_, dayResetMinute_,
                   stats_, lastSequenceNumber_, isInitialized_, now, nextReads, clockChange,
                   killed>>

RulePrices == {PRICE_MIN, 0} \cup Prices
RuleQuantities == 0..MaxQuantity

RuleOrders ==
    {NewOrder(t, id, s, p, q) :
        t \in OrderTypes \ {"Market"}, id \in OrderIds, s \in Sides,
        p \in RulePrices, q \in RuleQuantities}
    \cup {NewOrder("Market", id, s, InvalidPrice, q) :
            id \in OrderIds, s \in Sides, q \in RuleQuantities}

RulesNext ==
    \/ \E rules \in RuleSets : SetExchangeRules(rules)
    \/ \E order \in RuleOrders : AddOrderCall(order)
    \/ \E orderId \in OrderIds : CancelOrderCall(orderId)
    \/ \E modify \in Modifications : MatchOrderCall(modify)
    \/ \E t \in {FirstReset} : Tick(t)
    \/ \E t \in {FirstReset} : ClockAhead(<<t>>)

RulesSpec == Init /\ [][RulesNext]_vars

(* The order fails a check of the rules the claim names: the price check   *)
(* and the notional check for an order not submitted as Market, the        *)
(* quantity check for any order.                                           *)
FailsRules(rules, order) ==
    \/ order.orderType # "Market" /\ ~IsValidPrice(rules, order.price)
    \/ ~IsValidQuantity(rules, order.remainingQuantity)
    \/ order.orderType # "Market"
          /\ ~IsValidNotional(rules, order.price, order.remainingQuantity)

(* C14: when no day reset fires during the call, AddOrder of an order not  *)
(* submitted as Market whose price fails IsValidPrice, of any order whose  *)
(* quantity fails IsValidQuantity, or of an order not submitted as Market  *)
(* whose notional is below the minimum returns no Trades and leaves the    *)
(* book as it was: only orders converted from Market skip the price and    *)
(* notional checks.                                                        *)
RuleViolationRejected ==
    \A o \in RuleOrders :
        (~ShouldResetDay(Self) /\ FailsRules(exchangeRules_, o))
        => RejectsUnchanged(Self, o)

(* The same of the orders whose price is not one of the two extreme prices *)
(* ValidateOrder takes for the mark of a converted market order.           *)
RuleViolationRejectedBelowExtremes ==
    \A o \in RuleOrders :
        (~ShouldResetDay(Self) /\ FailsRules(exchangeRules_, o)
            /\ o.price # PRICE_MIN /\ o.price # PRICE_MAX)
        => RejectsUnchanged(Self, o)

----------------------------------------------------------------------------
(* Orders that find nothing to trade with, and ids the index has not. *)

OppositeEmpty(ob, side) == DOMAIN Levels(ob, Opposite(side)) = {}

(* C15 as stated: AddOrder of a Market order when the opposite side of the *)
(* book is empty returns no Trades and leaves the book as it was; the      *)
(* order does not rest, converted or not.                                  *)
MarketOnEmptySideRejected ==
    \A o \in MarketOrders : OppositeEmpty(Self, o.side) => RejectsUnchanged(Self, o)

(* C15: when no day reset fires during the call, AddOrder of a Market      *)
(* order when the opposite side of the book is empty returns no Trades and *)
(* leaves the book as it was; the order does not rest, converted or not.   *)
MarketOnEmptySideRejectedNoReset ==
    \A o \in MarketOrders :
        (OppositeEmpty(Self, o.side) /\ ~ShouldResetDay(Self))
        => /\ RejectsUnchanged(Self, o)
           /\ AddOrder(Self, o).order = o

(* A Market order of a fresh id comes to a book that holds orders on the   *)
(* order's own side only, and is refused.                                  *)
MarketOnEmptySideRejectedWitness ==
    \E o \in MarketOrders :
        /\ OppositeEmpty(Self, o.side)
        /\ ~OppositeEmpty(Self, Opposite(o.side))
        /\ o.orderId \notin DOMAIN orders_
        /\ ~ShouldResetDay(Self)
        /\ RejectsUnchanged(Self, o)

ImmediateOrCancelOrders == {o \in LimitOrders : o.orderType = "ImmediateOrCancel"}

(* C16 as stated: AddOrder of an ImmediateOrCancel order that cannot match *)
(* at all (a Buy with no asks or a price below the best ask, a Sell with   *)
(* no bids or a price above the best bid) returns no Trades, does not      *)
(* insert the order and leaves the book as it was.                         *)
UnmatchableImmediateOrCancelRejected ==
    \A o \in ImmediateOrCancelOrders :
        ~CanMatch(Self, o.side, o.price) => RejectsUnchanged(Self, o)

(* C16: when no day reset fires during the call, AddOrder of an            *)
(* ImmediateOrCancel order that cannot match at all returns no Trades,     *)
(* does not insert the order and leaves the book as it was.                *)
UnmatchableImmediateOrCancelRejectedNoReset ==
    \A o \in ImmediateOrCancelOrders :
        (~CanMatch(Self, o.side, o.price) /\ ~ShouldResetDay(Self))
        => /\ RejectsUnchanged(Self, o)
           /\ AddOrder(Self, o).order = o

(* An ImmediateOrCancel Buy of a fresh id is priced below the best ask of  *)
(* a book with asks, and is refused.                                       *)
UnmatchableImmediateOrCancelRejectedWitness ==
    \E o \in ImmediateOrCancelOrders :
        /\ o.side = "Buy"
        /\ DOMAIN asks_ # {}
        /\ o.price < BestAsk(Self)
        /\ o.orderId \notin DOMAIN orders_
        /\ ~ShouldResetDay(Self)
        /\ ValidateOrder(Self, o) = "None"
        /\ RejectsUnchanged(Self, o)

(* CancelOrder leaves a book without the id as it is, and a second         *)
(* cancellation of an id leaves what the first left.                       *)
CancelIgnoresUnknown(ob) ==
    /\ \A id \in OrderIds \ DOMAIN ob.orders : CancelOrder(ob, id) = ob
    /\ \A id \in OrderIds : CancelOrder(CancelOrder(ob, id), id) = CancelOrder(ob, id)

ModifyIgnored(ob, modify) ==
    /\ MatchOrder(ob, modify).trades = <<>>
    /\ SameBook(MatchOrder(ob, modify).ob, ob)

(* C17 as stated: CancelOrder and MatchOrder with an id the index has not  *)
(* leave the book as it was, cancelling an id twice equals cancelling it   *)
(* once, and MatchOrder returns no Trades.                                 *)
UnknownIdIgnored ==
    /\ CancelIgnoresUnknown(Self)
    /\ \A modify \in Modifications :
          modify.orderId \notin DOMAIN orders_ => ModifyIgnored(Self, modify)

(* C17: CancelOrder with an id the index has not returns and leaves the    *)
(* book as it was, cancelling an id twice equals cancelling it once, and   *)
(* when no day reset fires during the call MatchOrder with such an id      *)
(* returns, with no Trades, and leaves the book as it was.                 *)
UnknownIdIgnoredNoReset ==
    /\ CancelIgnoresUnknown(Self)
    /\ \A id \in OrderIds \ DOMAIN orders_ : Returns(CancelOrder(Self, id))
    /\ \A modify \in Modifications :
          (modify.orderId \notin DOMAIN orders_ /\ ~ShouldResetDay(Self))
          => /\ Returns(MatchOrder(Self, modify).ob)
             /\ ModifyIgnored(Self, modify)

(* The book holds an order and not the id of a modification whose price    *)
(* reaches it; the modification and the cancellation of that id change     *)
(* nothing.                                                                *)
UnknownIdIgnoredWitness ==
    \E modify \in Modifications :
        /\ modify.orderId \notin DOMAIN orders_
        /\ CanMatch(Self, modify.side, modify.price)
        /\ ~ShouldResetDay(Self)
        /\ Returns(MatchOrder(Self, modify).ob)
        /\ ModifyIgnored(Self, modify)
        /\ Returns(CancelOrder(Self, modify.orderId))
        /\ SameMembers(CancelOrder(Self, modify.orderId), Self)

----------------------------------------------------------------------------
(* The day reset. *)

GoodForDayIds(ob) == {id \in DOMAIN ob.orders : ob.orders[id].orderType = "GoodForDay"}

(* The queue of a level without its GoodForDay orders, and the levels of a *)
(* side without them.                                                      *)
WithoutGoodForDay(level) ==
    LET Keep(o) == o.orderType # "GoodForDay"
    IN  SelectSeq(level, Keep)

LevelsWithoutGoodForDay(levels) ==
    [p \in {q \in DOMAIN levels : WithoutGoodForDay(levels[q]) # <<>>}
        |-> WithoutGoodForDay(levels[p])]

(* The book s is the book ob swept: no GoodForDay order, the others where  *)
(* they were.                                                              *)
Swept(ob, s) ==
    /\ GoodForDayIds(s) = {}
    /\ \A o \in Resting(s.bids) \cup Resting(s.asks) : o.orderType # "GoodForDay"
    /\ s.bids = LevelsWithoutGoodForDay(ob.bids)
    /\ s.asks = LevelsWithoutGoodForDay(ob.asks)
    /\ DOMAIN s.orders = (DOMAIN ob.orders) \ GoodForDayIds(ob)
    /\ \A id \in DOMAIN s.orders : s.orders[id] = ob.orders[id]

(* C18: when the day-reset check fires, every resting GoodForDay order is  *)
(* cancelled, so that no GoodForDay order remains after the sweep, and no  *)
(* order of another type is touched: the other orders keep their levels,   *)
(* their places in the queues and their remaining quantities.              *)
DailySweep ==
    ShouldResetDay(Self)
    => /\ Returns(CheckAndResetDay(Self))
       /\ Swept(Self, CheckAndResetDay(Self))
       /\ CheckAndResetDay(Self).lastDayReset = now

(* C18 for the sweeps that return: the book the day check leaves when it   *)
(* fires is the book without its GoodForDay orders, marked at now.         *)
DailySweepWhenReturned ==
    ShouldResetDay(Self)
    => /\ Swept(Self, CheckAndResetDay(Self))
       /\ CheckAndResetDay(Self).lastDayReset = now

(* A reset is due in a book of two GoodForDay orders and an order of       *)
(* another type, which the sweep leaves alone in the book.                 *)
DailySweepWitness ==
    /\ ShouldResetDay(Self)
    /\ Cardinality(GoodForDayIds(Self)) = 2
    /\ Size(Self) = 3
    /\ Size(CheckAndResetDay(Self)) = 1

----------------------------------------------------------------------------
(* The book over several days: the clock comes to the midnight and to the  *)
(* reset instant of each day.                                              *)

MaxDay == 1

Midnights == {At(day, 0, 0) : day \in 1..MaxDay}
ResetInstants == {At(day, dayResetHour_, dayResetMinute_) : day \in 0..MaxDay}
DayInstants == Midnights \cup ResetInstants

DayNext ==
    \/ \E order \in Orders : AddOrderCall(order)
    \/ \E orderId \in OrderIds : CancelOrderCall(orderId)
    \/ \E modify \in Modifications : MatchOrderCall(modify)
    \/ \E t \in DayInstants : Tick(t)
    \/ \E t \in DayInstants : ClockAhead(<<t>>)

DaySpec == Init /\ [][DayNext]_vars

(* None of the GoodForDay orders the book ob held is in the book the call  *)
(* leaves, but for an order the call itself put there under the id it was  *)
(* given.                                                                  *)
ExpiredBy(ob, id, r) == (GoodForDayIds(ob) \ {id}) \cap DOMAIN r.ob.orders = {}

(* The day check the calls begin with leaves no GoodForDay order, and so   *)
(* do AddOrder and MatchOrder.                                             *)
CallsExpire(ob) ==
    /\ GoodForDayIds(CheckAndResetDay(ob)) = {}
    /\ \A o \in Orders : ExpiredBy(ob, o.orderId, AddOrder(ob, o))
    /\ \A modify \in Modifications : ExpiredBy(ob, modify.orderId, MatchOrder(ob, modify))

(* GoodForDay orders rest, admitted at or before now, and the clock passes *)
(* a reset instant while no call is under way: the calls made then are the *)
(* first since that instant.                                               *)
ExpiryStep ==
    (/\ GoodForDayIds(Self) # {}
     /\ UNCHANGED <<bids_, asks_, orders_, lastDayReset_>>
     /\ \E T \in ResetInstants : now < T /\ T <= now')
    => CallsExpire(Self)'

(* C19: for a resting GoodForDay order admitted at time t, once a daily    *)
(* reset instant T with t < T has passed, the first AddOrder or MatchOrder *)
(* call made at any time now >= T removes it, however long after T the     *)
(* call is made.                                                           *)
GoodForDayExpires == [][ExpiryStep]_vars

(* When the call is made on the calendar day of the reset instant its day  *)
(* check fires, and the sweep of DailySweep follows.                       *)
ExpiryStepSameDay ==
    (/\ GoodForDayIds(Self) # {}
     /\ UNCHANGED <<bids_, asks_, orders_, lastDayReset_>>
     /\ \E T \in ResetInstants :
           now < T /\ T <= now' /\ LocalDay(T) = LocalDay(now'))
    => ShouldResetDay(Self)'

GoodForDayExpiresSameDay == [][ExpiryStepSameDay]_vars

----------------------------------------------------------------------------
(* The aggregated view (GetOrderInfos, src/LevelInfo.h).  A level's total  *)
(* is accumulated in a Quantity, an unsigned integer of 32 bits; the model *)
(* holds such a total as its two halves of 16 bits, <<high, low>>.         *)

QuantityHalf == 65536

(* The total w and the quantity q added in a std::size_t. *)
AddHalves(w, q) ==
    LET low == w[2] + (q % QuantityHalf)
    IN  <<w[1] + (q \div QuantityHalf) + (low \div QuantityHalf), low % QuantityHalf>>

(* The conversion of the std::size_t to Quantity. *)
ToQuantity(w) == <<w[1] % QuantityHalf, w[2]>>

(* std::accumulate: init = op(init, order) for each order, init a Quantity. *)
RECURSIVE Accumulate(_, _)
Accumulate(orders, init) ==
    IF orders = <<>> THEN init
    ELSE Accumulate(Tail(orders),
                    ToQuantity(AddHalves(init, Head(orders).remainingQuantity)))

CreateLevelInfos(price, orders) ==
    [price |-> price, quantity |-> Accumulate(orders, <<0, 0>>)]

(* The keys of bids_ in the order of std::greater, of asks_ in that of     *)
(* std::less.                                                              *)
RECURSIVE Descending(_)
Descending(S) ==
    IF S = {} THEN <<>> ELSE <<SetMax(S)>> \o Descending(S \ {SetMax(S)})

RECURSIVE Ascending(_)
Ascending(S) ==
    IF S = {} THEN <<>> ELSE <<SetMin(S)>> \o Ascending(S \ {SetMin(S)})

LevelInfosOf(levels, prices) ==
    [i \in 1..Len(prices) |-> CreateLevelInfos(prices[i], levels[prices[i]])]

GetOrderInfos(ob) ==
    [bids |-> LevelInfosOf(ob.bids, Descending(DOMAIN ob.bids)),
     asks |-> LevelInfosOf(ob.asks, Ascending(DOMAIN ob.asks))]

(* A book filled by a snapshot of up to MaxDepth levels a side, each of    *)
(* the largest quantity the integers of the model hold, and the            *)
(* cancellation of the orders the snapshot made.                           *)
MaxDepth == 3
LargeQuantity == 2147483647

DepthSides ==
    UNION {[1..n -> [price : Prices, quantity : {0, LargeQuantity}]] : n \in 0..MaxDepth}

DepthMessages ==
    [type : {"BookSnapshot"}, bids : DepthSides, asks : DepthSides,
     sequenceNumber : 1..MaxSequenceNumber]

SyntheticIds == {<<SyntheticIdBase[1], n>> : n \in 0..(2 * MaxDepth - 1)}

DepthNext ==
    \/ \E msg \in DepthMessages : ProcessMarketDataCall(msg)
    \/ \E orderId \in SyntheticIds : CancelOrderCall(orderId)

DepthSpec == Init /\ [][DepthNext]_vars

(* The sum of the remaining quantities of a queue, in halves, the high one *)
(* as large as the sum makes it.                                           *)
RECURSIVE SumHalves(_)
SumHalves(orders) ==
    IF orders = <<>> THEN <<0, 0>>
    ELSE AddHalves(SumHalves(Tail(orders)), Head(orders).remainingQuantity)

(* One entry for each level of the side, in the order better tells, each   *)
(* of a level that holds an order.                                         *)
OneEntryPerLevel(infos, levels, better(_, _)) ==
    /\ Len(infos) = Cardinality(DOMAIN levels)
    /\ \A i \in 1..Len(infos) :
          /\ infos[i].price \in DOMAIN levels
          /\ levels[infos[i].price] # <<>>
    /\ \A i, j \in 1..Len(infos) : i < j => better(infos[i].price, infos[j].price)

EntriesAreSums(infos, levels) ==
    \A i \in 1..Len(infos) : infos[i].quantity = SumHalves(levels[infos[i].price])

EntriesAreSumsModulo(infos, levels) ==
    \A i \in 1..Len(infos) :
        infos[i].quantity = ToQuantity(SumHalves(levels[infos[i].price]))

Higher(p, q) == p > q
Lower(p, q) == p < q

LevelInfosInOrder ==
    /\ OneEntryPerLevel(GetOrderInfos(Self).bids, bids_, Higher)
    /\ OneEntryPerLevel(GetOrderInfos(Self).asks, asks_, Lower)

(* C20: GetOrderInfos returns one entry for each price level, the bids in  *)
(* strictly descending and the asks in strictly ascending order of price,  *)
(* the quantity of each entry is the sum of the remaining quantities of    *)
(* the orders resting at that level, and no entry is of a level without    *)
(* orders.                                                                 *)
LevelInfosAreLevelSums ==
    /\ LevelInfosInOrder
    /\ EntriesAreSums(GetOrderInfos(Self).bids, bids_)
    /\ EntriesAreSums(GetOrderInfos(Self).asks, asks_)

(* The same with each quantity the sum modulo 2^32. *)
LevelInfosAreLevelSumsModulo ==
    /\ LevelInfosInOrder
    /\ EntriesAreSumsModulo(GetOrderInfos(Self).bids, bids_)
    /\ EntriesAreSumsModulo(GetOrderInfos(Self).asks, asks_)

----------------------------------------------------------------------------
(* The Trades a call returns. *)

(* The order a trade of the call names: an order of the book the matching  *)
(* pass found, or the order passed to the call when it never rests.        *)
TradedOrder(r, id) ==
    IF id \in DOMAIN r.start.orders THEN FindOrder(r.start, id) ELSE r.order

TradeShaped(r, trade) ==
    /\ TradedOrder(r, trade.bid.orderId).orderId = trade.bid.orderId
    /\ TradedOrder(r, trade.bid.orderId).side = "Buy"
    /\ TradedOrder(r, trade.bid.orderId).price = trade.bid.price
    /\ TradedOrder(r, trade.ask.orderId).orderId = trade.ask.orderId
    /\ TradedOrder(r, trade.ask.orderId).side = "Sell"
    /\ TradedOrder(r, trade.ask.orderId).price = trade.ask.price
    /\ trade.bid.quantity = trade.ask.quantity
    /\ trade.bid.price >= trade.ask.price

(* The price a Market order trades under once converted. *)
ExtremePrice(side) == IF side = "Buy" THEN PRICE_MAX ELSE PRICE_MIN

TradesShaped(r) == \A i \in 1..Len(r.trades) : TradeShaped(r, r.trades[i])

MarketTradesAtExtreme(o, r) ==
    \A i \in 1..Len(r.trades) :
        TradeIdOn(r.trades[i], o.side) = o.orderId
        => (IF o.side = "Buy" THEN r.trades[i].bid.price ELSE r.trades[i].ask.price)
              = ExtremePrice(o.side)

(* C21: in every Trade AddOrder or MatchOrder returns the bid slot has the *)
(* id of a Buy order and the ask slot the id of a Sell order, the two      *)
(* quantities are equal, the price of each slot is the limit price of its  *)
(* order (PRICE_MAX or PRICE_MIN for a converted Market order), and the    *)
(* price of the bid slot is at or above that of the ask slot.              *)
TradeRecordShape ==
    /\ \A o \in Orders : TradesShaped(AddOrder(Self, o))
    /\ \A o \in MarketOrders : MarketTradesAtExtreme(o, AddOrder(Self, o))
    /\ \A modify \in Modifications : TradesShaped(MatchOrder(Self, modify))

(* A limit order trades with an order at another price, a Market order     *)
(* trades, a FillOrKill order trades and a modification trades.            *)
TradeRecordShapeWitness ==
    /\ \E o \in LimitOrders : \E i \in 1..Len(AddOrder(Self, o).trades) :
          AddOrder(Self, o).trades[i].bid.price > AddOrder(Self, o).trades[i].ask.price
    /\ \E o \in MarketOrders : AddOrder(Self, o).trades # <<>>
    /\ \E o \in LimitOrders :
          o.orderType = "FillOrKill" /\ AddOrder(Self, o).trades # <<>>
    /\ \E modify \in Modifications : MatchOrder(Self, modify).trades # <<>>

----------------------------------------------------------------------------
(* The market data feed. *)

(* Snapshots of up to two levels a side, levels of quantity 0 and levels   *)
(* of one price among them.                                                *)
RebuildSides ==
    SnapshotSides \cup {<<a, b>> : a \in SnapshotLevels, b \in SnapshotLevels}

RebuildMessages ==
    {msg \in [type : {"BookSnapshot"}, bids : RebuildSides, asks : RebuildSides,
              sequenceNumber : 0..MaxSequenceNumber] :
        Len(msg.bids) + Len(msg.asks) <= 2}

NonZero(levels) ==
    LET Kept(level) == level.quantity # 0
    IN  SelectSeq(levels, Kept)

(* One GoodTillCancel order for each level of non-zero quantity, the ids   *)
(* counted from the base 2^63 plus first.                                  *)
SyntheticOrders(levels, side, first) ==
    [i \in 1..Len(NonZero(levels)) |->
        NewOrder("GoodTillCancel", <<SyntheticIdBase[1], SyntheticIdBase[2] + first + i - 1>>,
                 side, NonZero(levels)[i].price, NonZero(levels)[i].quantity)]

(* The levels these orders make, each at its price in the order given. *)
LevelsFrom(orders) ==
    [p \in {orders[i].price : i \in 1..Len(orders)} |->
        LET AtPrice(o) == o.price = p
        IN  SelectSeq(orders, AtPrice)]

IndexFrom(orders) ==
    [id \in {orders[i].orderId : i \in 1..Len(orders)} |->
        OrderEntry(orders[CHOOSE i \in 1..Len(orders) : orders[i].orderId = id])]

(* r is what ProcessMarketData gives for the snapshot msg. *)
Rebuilt(msg, r) ==
    LET bidOrders == SyntheticOrders(msg.bids, "Buy", 0)
        askOrders == SyntheticOrders(msg.asks, "Sell", Len(bidOrders))
    IN  /\ r.ob.bids = LevelsFrom(bidOrders)
        /\ r.ob.asks = LevelsFrom(askOrders)
        /\ r.ob.orders = IndexFrom(bidOrders \o askOrders)
        /\ Size(r.ob) = Len(NonZero(msg.bids)) + Len(NonZero(msg.asks))
        /\ r.isInitialized
        /\ r.lastSequenceNumber = msg.sequenceNumber
        /\ r.stats.snapshots = stats_.snapshots + 1
        /\ r.result

(* C22: a BookSnapshotMessage discards every resting order and index entry *)
(* and rebuilds the book with one synthetic GoodTillCancel order for each  *)
(* level of non-zero quantity (Buy for bid levels, Sell for ask levels, at *)
(* the level's price and quantity), the ids counted from 2^63; afterwards  *)
(* Size() is the number of such levels, IsInitialized() is true,           *)
(* GetLastSequenceNumber() is the sequence number of the message and the   *)
(* snapshots counter has grown by one.                                     *)
SnapshotRebuilds ==
    \A msg \in RebuildMessages : Rebuilt(msg, ProcessMarketData(Self, msg))

(* Two client orders rest in a book no snapshot has filled; a snapshot of  *)
(* two bid levels of one price leaves the two synthetic orders of these    *)
(* and none of the client orders, and a snapshot of a level of quantity 0  *)
(* and an ask level leaves one Sell order of the first synthetic id.       *)
SnapshotRebuildsWitness ==
    /\ ~isInitialized_
    /\ Size(Self) = 2
    /\ \E msg \in RebuildMessages :
          /\ Len(NonZero(msg.bids)) = 2
          /\ msg.bids[1].price = msg.bids[2].price
          /\ DOMAIN ProcessMarketData(Self, msg).ob.orders
                = {SyntheticIdBase, NextId(SyntheticIdBase)}
          /\ Len(ProcessMarketData(Self, msg).ob.bids[msg.bids[1].price]) = 2
    /\ \E msg \in RebuildMessages :
          /\ Len(msg.bids) = 1 /\ NonZero(msg.bids) = <<>>
          /\ Len(NonZero(msg.asks)) = 1
          /\ ProcessMarketData(Self, msg).ob.bids = <<>>
          /\ ProcessMarketData(Self, msg).ob.orders[SyntheticIdBase].side = "Sell"

(* The book after msg and the book after msg twice in a row. *)
AppliedOnce(ob, msg) == ProcessMarketData(ob, msg).ob
AppliedTwice(ob, msg) == ProcessMarketData(AppliedOnce(ob, msg), msg).ob

(* C23: applying one BookSnapshotMessage twice in a row leaves after the   *)
(* second application the book (levels, orders, ids, remaining quantities, *)
(* index) the first application left, whatever the book held before.       *)
SnapshotIdempotent ==
    \A msg \in RebuildMessages : AppliedTwice(Self, msg) = AppliedOnce(Self, msg)

(* A snapshot of levels on both sides has been applied to the book, and    *)
(* applying it again leaves this book.                                     *)
SnapshotIdempotentWitness ==
    /\ \E msg \in RebuildMessages :
          /\ NonZero(msg.bids) # <<>> /\ NonZero(msg.asks) # <<>>
          /\ isInitialized_
          /\ SameMembers(Self, ProcessSnapshot(Self, msg))
          /\ SameMembers(AppliedTwice(Self, msg), Self)

----------------------------------------------------------------------------
(* A book driven by its feed alone: single messages and batches, with      *)
(* snapshots of several sequence numbers.                                  *)

MaxFeedMessages == 2
MaxFeedSequenceNumber == 3

FeedSnapshotSides(price) ==
    {<<>>, <<[price |-> price, quantity |-> MaxQuantity]>>}

FeedMessages ==
    [type : {"NewOrder"}, orderId : OrderIds, side : Sides, price : Prices,
     quantity : {MaxQuantity}, orderType : OrderTypes]
    \cup [type : {"CancelOrder"}, orderId : OrderIds]
    \cup [type : {"ModifyOrder"}, orderId : OrderIds, side : Sides,
          newPrice : Prices, newQuantity : {MaxQuantity}]
    \cup [type : {"Trade"}]
    \cup [type : {"BookSnapshot"}, bids : FeedSnapshotSides(1),
          asks : FeedSnapshotSides(MaxPrice),
          sequenceNumber : 0..MaxFeedSequenceNumber]

FeedBatches ==
    {<<>>} \cup {<<a>> : a \in FeedMessages}
    \cup {<<a, b>> : a \in FeedMessages, b \in FeedMessages}

(* The members the feed changes, as ProcessMessage takes them. *)
Feed ==
    [ob |-> Self, stats |-> stats_, lastSequenceNumber |-> lastSequenceNumber_,
     isInitialized |-> isInitialized_, result |-> TRUE]

FeedMessageCall(msg) ==
    /\ stats_.messagesProcessed < MaxFeedMessages
    /\ SetFeed(ProcessMarketData(Self, msg))
    /\ UNCHANGED <<clockChange, dayResetHour_, dayResetMinute_, exchangeRules_>>

ProcessMarketDataBatchCall(messages) ==
    /\ stats_.messagesProcessed + Len(messages) <= MaxFeedMessages
    /\ SetFeed(ProcessMarketDataBatch(Feed, messages).feed)
    /\ UNCHANGED <<clockChange, dayResetHour_, dayResetMinute_, exchangeRules_>>

(* The reads of the clock the longest batch of FeedBatches makes: two      *)
(* modifications, each read twice.                                         *)
MaxFeedReads == 4

(* The clock shows the reset time from one of the reads of a batch on.     *)
FeedReadings == {[i \in 1..n |-> IF i < n THEN ConstructionTime ELSE FirstReset] :
                   n \in 1..(MaxFeedReads - 1)}

FeedNext ==
    \/ \E msg \in FeedMessages : FeedMessageCall(msg)
    \/ \E messages \in FeedBatches : ProcessMarketDataBatchCall(messages)
    \/ \E t \in {FirstReset} : Tick(t)
    \/ \E ahead \in FeedReadings : ClockAhead(ahead)

FeedSpec == Init /\ [][FeedNext]_vars

(* C24: over any sequence of processed messages the value                  *)
(* GetLastSequenceNumber() returns never decreases: the sequence number a  *)
(* snapshot records is <= the one any later snapshot records.              *)
SequenceNumbersMonotone == [][lastSequenceNumber_' >= lastSequenceNumber_]_vars

(* The sequence number never decreases as long as each snapshot carries a  *)
(* number no smaller than the one recorded.                                *)
SequenceNumberIsLastSnapshot ==
    \A msg \in FeedMessages :
        LET r == ProcessMarketData(Self, msg)
        IN  r.lastSequenceNumber =
                IF msg.type = "BookSnapshot" THEN msg.sequenceNumber
                ELSE lastSequenceNumber_

FeedSnapshots == {msg \in FeedMessages : msg.type = "BookSnapshot"}

SequenceGap(msg) == msg.sequenceNumber > lastSequenceNumber_ + 1

(* C25: a BookSnapshotMessage whose sequence number exceeds the recorded   *)
(* last_sequence_number by more than 1 increments sequence_gaps by one; a  *)
(* snapshot whose increment is at most 1 leaves sequence_gaps.             *)
SequenceGapCounted ==
    \A msg \in FeedSnapshots :
        ProcessMarketData(Self, msg).stats.sequenceGaps
            = stats_.sequenceGaps + (IF SequenceGap(msg) THEN 1 ELSE 0)

(* No message changes sequence_gaps: a snapshot without a gap leaves it,   *)
(* and so does one with a gap.                                             *)
SequenceGapsUnchanged ==
    /\ stats_.sequenceGaps = 0
    /\ \A msg \in FeedMessages :
          ProcessMarketData(Self, msg).stats.sequenceGaps = stats_.sequenceGaps

(* Messages of a batch of one order id and one price, of every kind and    *)
(* order type.                                                             *)
FollowUps ==
    {msg \in FeedMessages :
        CASE msg.type = "NewOrder" -> msg.orderId = ClientId(MaxOrderId) /\ msg.price = 1
          [] msg.type = "ModifyOrder" -> msg.orderId = ClientId(MaxOrderId) /\ msg.newPrice = 1
          [] msg.type = "CancelOrder" -> msg.orderId = ClientId(MaxOrderId)
          [] msg.type = "Trade" -> TRUE
          [] msg.type = "BookSnapshot" -> msg.sequenceNumber = 0}

(* Read at one instant: every batch on a book no message has reached, and  *)
(* on the other books the batches of one message and those whose second    *)
(* message is a follow-up.  With a clock that moves during the batch: the  *)
(* batches of one message and those of two follow-ups.                     *)
CheckedBatches ==
    {messages \in FeedBatches :
        \/ Len(messages) < 2
        \/ nextReads = <<>> /\ stats_.messagesProcessed = 0
        \/ nextReads = <<>> /\ messages[2] \in FollowUps
        \/ messages[1] \in FollowUps /\ messages[2] \in FollowUps}

(* The step is the call ProcessMarketData(msg), and the call returned. *)
ReturnedFrom(msg) ==
    /\ ~killed'
    /\ stats_'.messagesProcessed = stats_.messagesProcessed + 1
    /\ FeedMessageCall(msg)

(* The batch of no message leaves the members and returns 0. *)
BatchOfNone ==
    ProcessMarketDataBatch(Feed, <<>>) = [feed |-> Feed, successCount |-> 0]

(* The batch of the one message msg leaves the members the step leaves,    *)
(* and returns 1.                                                          *)
BatchOfOneIsCall(msg) ==
    LET batch == ProcessMarketDataBatch(Feed, <<msg>>)
    IN  /\ batch.successCount = 1
        /\ batch.feed.ob.bids = bids_'
        /\ batch.feed.ob.asks = asks_'
        /\ batch.feed.ob.orders = orders_'
        /\ batch.feed.ob.lastDayReset = lastDayReset_'
        /\ batch.feed.stats = stats_'
        /\ batch.feed.lastSequenceNumber = lastSequenceNumber_'
        /\ batch.feed.isInitialized = isInitialized_'

(* The reads the call ProcessMarketData(msg) makes of the clock. *)
ReadsOf(msg) == ProcessMarketData(Self, msg).ob.reads

(* After the step the clock gives the readings that follow the k first. *)
ClockReadOn(k) == \A i \in 1..MaxFeedReads : Reading(i)' = Reading(k + i)

(* The members the step leaves, the clock read k times. *)
LeftByStep(k) ==
    [ob |-> [bids |-> bids_', asks |-> asks_', orders |-> orders_',
             lastDayReset |-> lastDayReset_', readFreed |-> FALSE, reads |-> k],
     stats |-> stats_',
     lastSequenceNumber |-> lastSequenceNumber_',
     isInitialized |-> isInitialized_',
     result |-> TRUE]

(* The batch of the message of the step and a second message, made in the  *)
(* state the step begins in, leaves what the call ProcessMarketData of the *)
(* second message leaves when it is made on the members the step left,     *)
(* under the clock the step left; it returns the number of the two calls   *)
(* that gave true.                                                         *)
BatchOfTwoIsCalls(batch, call) ==
    /\ SameMembers(batch.feed.ob, call.ob)
    /\ batch.feed.stats = call.stats
    /\ batch.feed.lastSequenceNumber = call.lastSequenceNumber
    /\ batch.feed.isInitialized = call.isInitialized
    /\ batch.successCount = 1 + (IF call.result THEN 1 ELSE 0)

(* The second messages of the checked batches that begin with first. *)
SecondMessages(first) ==
    IF nextReads = <<>> /\ stats_.messagesProcessed = 0 THEN FeedMessages
    ELSE IF nextReads = <<>> \/ first \in FollowUps THEN FollowUps
    ELSE {}

BatchStep ==
    /\ BatchOfNone
    /\ \A first \in FeedMessages :
          ReturnedFrom(first)
          => /\ BatchOfOneIsCall(first)
             /\ \A k \in {ReadsOf(first)} :
                   /\ ClockReadOn(k)
                   /\ \A left \in {LeftByStep(k)} :
                         \A second \in SecondMessages(first) :
                           \A batch \in {ProcessMarketDataBatch(Feed, <<first, second>>)} :
                             \A call \in {ProcessMessage(left, second)} :
                               BatchOfTwoIsCalls(batch, call)

(* C26: ProcessMarketDataBatch(seq) leaves the book, is_initialized,       *)
(* last_sequence_number and all message counters as calling                *)
(* ProcessMarketData on each element of seq in order leaves them, and      *)
(* returns the number of elements ProcessMarketData returned true for:     *)
(* whenever a call of ProcessMarketData is made and returns, the batch of  *)
(* its message alone leaves what the call left, the clock goes on from the *)
(* reads the call made, and the batch of its message and any second one    *)
(* leaves what the call of the second message made next leaves.            *)
BatchEqualsSequence == [][BatchStep]_vars

(* A message has been processed and an order rests; the batch of a         *)
(* snapshot of one bid level and a Sell order that takes the whole level   *)
(* returns 2 and leaves an empty book, initialized, with the snapshot's    *)
(* number, three messages counted, a snapshot, a new order and a trade     *)
(* more.                                                                   *)
BatchEqualsSequenceWitness ==
    /\ stats_.messagesProcessed = 1
    /\ orders_ # <<>>
    /\ \E messages \in FeedBatches :
          /\ Len(messages) = 2
          /\ messages[1].type = "BookSnapshot" /\ messages[2].type = "NewOrder"
          /\ messages[1].asks = <<>> /\ messages[1].bids # <<>>
          /\ messages[2].side = "Sell" /\ messages[2].orderType = "GoodTillCancel"
          /\ ProcessMarketDataBatch(Feed, messages).successCount = 2
          /\ ProcessMarketDataBatch(Feed, messages).feed.stats
                = [stats_ EXCEPT !.messagesProcessed = 3, !.snapshots = @ + 1,
                                 !.newOrders = @ + 1, !.trades = @ + 1]
          /\ ProcessMarketDataBatch(Feed, messages).feed.isInitialized
          /\ ProcessMarketDataBatch(Feed, messages).feed.lastSequenceNumber
                = messages[1].sequenceNumber
          /\ DOMAIN ProcessMarketDataBatch(Feed, messages).feed.ob.orders = {}
          /\ ProcessMarketDataBatch(Feed, messages).feed.ob.bids = EmptyLevels

----------------------------------------------------------------------------
(* Order::Fill. *)

RestingOrders(ob) == Resting(ob.bids) \cup Resting(ob.asks)

RestingOrder(ob, id) == CHOOSE o \in RestingOrders(ob) : o.orderId = id

FillQuantities == 0..(MaxQuantity + 1)

FillContract(order, q) ==
    /\ FillSucceeds(order, q) <=> q <= order.remainingQuantity
    /\ FillSucceeds(order, q)
          => Fill(order, q) = [order EXCEPT !.remainingQuantity = @ - q]
    /\ ~FillSucceeds(order, q) => Fill(order, q) = order
    /\ Fill(order, q).remainingQuantity <= order.remainingQuantity

WithinInitial(order) ==
    /\ 0 <= order.remainingQuantity
    /\ order.remainingQuantity <= order.initialQuantity
    /\ IsFilled(order) <=> order.remainingQuantity = 0

(* The orders that rest before and after a call for the order of id keep   *)
(* or lose remaining quantity; r is the result of the call.                *)
NoneGrows(id, r) ==
    \A other \in (DOMAIN orders_ \cap DOMAIN r.ob.orders) \ {id} :
        /\ RestingOrder(r.ob, other).remainingQuantity <= RestingOrder(Self, other).remainingQuantity
        /\ RestingOrder(r.ob, other).initialQuantity = RestingOrder(Self, other).initialQuantity

(* C27: Fill(q) succeeds iff q <= remaining_quantity and then reduces      *)
(* remaining_quantity by exactly q; for q > remaining_quantity it fails    *)
(* and leaves the order unchanged; so 0 <= remaining_quantity <=           *)
(* initial_quantity holds for every order in every reachable state,        *)
(* remaining_quantity never increases, and IsFilled() holds exactly when   *)
(* remaining_quantity is 0.                                                *)
FillContractHolds ==
    /\ \A order \in RestingOrders(Self) :
          /\ WithinInitial(order)
          /\ \A q \in FillQuantities : FillContract(order, q)
    /\ \A o \in Orders :
          /\ WithinInitial(AddOrder(Self, o).order)
          /\ NoneGrows(o.orderId, AddOrder(Self, o))
    /\ \A modify \in Modifications :
          /\ WithinInitial(MatchOrder(Self, modify).order)
          /\ NoneGrows(modify.orderId, MatchOrder(Self, modify))

(* An order of quantity 2 rests partly filled: Fill(1) fills it, Fill(2)   *)
(* fails and leaves it; and some order fills the rest of it in a call.     *)
FillContractHoldsWitness ==
    \E order \in RestingOrders(Self) :
        /\ order.initialQuantity = 2 /\ order.remainingQuantity = 1
        /\ FillSucceeds(order, 1) /\ IsFilled(Fill(order, 1))
        /\ ~FillSucceeds(order, 2) /\ Fill(order, 2) = order
        /\ \E o \in Orders :
              /\ Len(AddOrder(Self, o).trades) = 1
              /\ order.orderId \notin DOMAIN AddOrder(Self, o).ob.orders
              /\ AddOrder(Self, o).order.remainingQuantity = 1

----------------------------------------------------------------------------
(* The rounding helpers of ExchangeRules (RoundToTick, RoundToLot).        *)

(* The quotient of int operands as C++ gives it, rounded towards zero;     *)
(* b > 0.                                                                  *)
TruncDiv(a, b) == IF a >= 0 THEN a \div b ELSE -((-a) \div b)

RoundToTick(rules, price) ==
    IF rules.tickSize <= 1 THEN price
    ELSE TruncDiv(price, rules.tickSize) * rules.tickSize

(* Quantity is unsigned: the quotient is the floor. *)
RoundToLot(rules, quantity) ==
    IF rules.lotSize <= 1 THEN quantity
    ELSE (quantity \div rules.lotSize) * rules.lotSize

MaxRound == 3

RoundPrices == (-MaxRound)..MaxRound
RoundQuantities == 0..MaxRound

(* Rules an order can be validated by, and those of any tick and lot size. *)
RoundRuleSets ==
    {[DefaultRules EXCEPT !.tickSize = tick, !.lotSize = lot] :
        tick \in 1..MaxRound, lot \in 1..MaxRound}

RoundSizes ==
    {[DefaultRules EXCEPT !.tickSize = tick, !.lotSize = lot] :
        tick \in (-1)..MaxRound, lot \in 0..MaxRound}

(* A client rounds the price and the quantity by the rules of the book and *)
(* adds the order.                                                         *)
AddRoundedOrderCall(id, side, price, quantity) ==
    AddOrderCall(NewOrder("GoodTillCancel", id, side,
                          RoundToTick(exchangeRules_, price),
                          RoundToLot(exchangeRules_, quantity)))

RoundNext ==
    \/ \E rules \in RoundRuleSets : SetExchangeRules(rules)
    \/ \E id \in OrderIds, side \in Sides, price \in RoundPrices,
          quantity \in RoundQuantities : AddRoundedOrderCall(id, side, price, quantity)
    \/ \E orderId \in OrderIds : CancelOrderCall(orderId)

RoundSpec == Init /\ [][RoundNext]_vars

(* r is the largest multiple of size that is <= x. *)
FloorOf(r, x, size) == r % size = 0 /\ r <= x /\ x < r + size

TickRounded(rules, p) ==
    /\ rules.tickSize > 1 => FloorOf(RoundToTick(rules, p), p, rules.tickSize)
    /\ rules.tickSize <= 1 => RoundToTick(rules, p) = p

LotRounded(rules, q) ==
    /\ rules.lotSize > 1 => FloorOf(RoundToLot(rules, q), q, rules.lotSize)
    /\ rules.lotSize <= 1 => RoundToLot(rules, q) = q

RoundingIdempotent(rules) ==
    /\ \A p \in RoundPrices :
          RoundToTick(rules, RoundToTick(rules, p)) = RoundToTick(rules, p)
    /\ \A q \in RoundQuantities :
          RoundToLot(rules, RoundToLot(rules, q)) = RoundToLot(rules, q)

(* C28: for tick_size > 1 RoundToTick(p) is the largest multiple of        *)
(* tick_size that is <= p for every Price p, zero and negative p included, *)
(* and for lot_size > 1 RoundToLot(q) is the largest multiple of lot_size  *)
(* that is <= q; both are idempotent, and with a size <= 1 they return     *)
(* their input.                                                            *)
RoundingIsFloor ==
    \A rules \in RoundSizes \cup {exchangeRules_} :
        /\ \A p \in RoundPrices : TickRounded(rules, p)
        /\ \A q \in RoundQuantities : LotRounded(rules, q)
        /\ RoundingIdempotent(rules)

(* The same of the prices p >= 0 alone; of p < 0 the result is the least   *)
(* multiple of tick_size that is >= p.                                     *)
RoundingIsFloorOfNonNegative ==
    \A rules \in RoundSizes \cup {exchangeRules_} :
        /\ \A p \in RoundPrices :
              IF p >= 0 \/ rules.tickSize <= 1 THEN TickRounded(rules, p)
              ELSE FloorOf(-RoundToTick(rules, p), -p, rules.tickSize)
        /\ \A q \in RoundQuantities : LotRounded(rules, q)
        /\ RoundingIdempotent(rules)

----------------------------------------------------------------------------
(* The day check of the ingress paths. *)

(* The book ob after a call for the order of id holds none of the          *)
(* GoodForDay orders that rested before it.                                *)
ResetFirst(id, ob) == (GoodForDayIds(Self) \ {id}) \cap DOMAIN ob.orders = {}

MessageId(msg) ==
    IF msg.type \in {"NewOrder", "CancelOrder", "ModifyOrder"} THEN msg.orderId
    ELSE SyntheticIdBase

AddAndModifyResetFirst ==
    /\ \A o \in Orders : ResetFirst(o.orderId, AddOrder(Self, o).ob)
    /\ \A modify \in Modifications : ResetFirst(modify.orderId, MatchOrder(Self, modify).ob)
    /\ \A msg \in Messages :
          msg.type \in {"NewOrder", "ModifyOrder"}
          => ResetFirst(msg.orderId, ProcessMarketData(Self, msg).ob)

(* C29: AddOrder, CancelOrder, MatchOrder and ProcessMarketData (for every *)
(* message variant) perform the day-reset check before anything else: if  *)
(* a reset is due when one of them is called, all GoodForDay orders are    *)
(* cancelled before the operation takes effect.                            *)
EveryIngressResetsFirst ==
    ShouldResetDay(Self)
    => /\ AddAndModifyResetFirst
       /\ \A orderId \in OrderIds : ResetFirst(orderId, CancelOrder(Self, orderId))
       /\ \A msg \in Messages : ResetFirst(MessageId(msg), ProcessMarketData(Self, msg).ob)

(* AddOrder and MatchOrder, and the messages that come to them, have the   *)
(* day check first; CancelOrder and the messages of the other kinds have   *)
(* none and leave lastDayReset_.                                           *)
AddAndModifyAloneResetFirst ==
    /\ ShouldResetDay(Self)
          => /\ AddAndModifyResetFirst
             /\ \A o \in Orders : AddOrder(Self, o).ob.lastDayReset = now
             /\ \A modify \in Modifications :
                   MatchOrder(Self, modify).ob.lastDayReset \in {now, Reading(2)}
    /\ \A orderId \in OrderIds : CancelOrder(Self, orderId).lastDayReset = lastDayReset_
    /\ \A msg \in Messages :
          msg.type \in {"CancelOrder", "Trade", "BookSnapshot"}
          => ProcessMarketData(Self, msg).ob.lastDayReset = lastDayReset_

----------------------------------------------------------------------------
(* The message counters. *)

One(condition) == IF condition THEN 1 ELSE 0

(* The messages counted by no counter of a kind but trades. *)
Unaccounted(stats) ==
    stats.messagesProcessed
        - (stats.newOrders + stats.cancellations + stats.modifications + stats.snapshots)

(* The Trades the AddOrder of a NewOrderMessage returns. *)
TradesOf(msg) ==
    Len(AddOrder(Self, NewOrder(msg.orderType, msg.orderId, msg.side,
                                msg.price, msg.quantity)).trades)

(* stats is what ProcessMarketData leaves for msg. *)
Counted(msg, stats) ==
    /\ stats.messagesProcessed = stats_.messagesProcessed + 1
    /\ stats.newOrders = stats_.newOrders + One(msg.type = "NewOrder")
    /\ stats.cancellations = stats_.cancellations + One(msg.type = "CancelOrder")
    /\ stats.modifications = stats_.modifications + One(msg.type = "ModifyOrder")
    /\ stats.snapshots = stats_.snapshots + One(msg.type = "BookSnapshot")
    /\ stats.trades = stats_.trades + (CASE msg.type = "Trade" -> 1
                                         [] msg.type = "NewOrder" -> TradesOf(msg)
                                         [] OTHER -> 0)
    /\ Unaccounted(stats) = Unaccounted(stats_) + One(msg.type = "Trade")

(* C30: every dispatched message increments messages_processed by one and *)
(* one kind counter: new_orders for a NewOrderMessage (also when the order *)
(* is rejected), cancellations for a CancelOrderMessage (also when the id  *)
(* is unknown), modifications for a ModifyOrderMessage, snapshots for a    *)
(* BookSnapshotMessage, trades for a TradeMessage; a NewOrderMessage adds  *)
(* the number of trades its AddOrder returned to trades; so                *)
(* messages_processed = new_orders + cancellations + modifications +       *)
(* snapshots + the number of TradeMessages processed.                      *)
MessagesCounted ==
    /\ Unaccounted(stats_) \in 0..stats_.trades
    /\ \A msg \in FeedMessages : Counted(msg, ProcessMarketData(Self, msg).stats)

(* An order rests after one message: a NewOrderMessage of its id is        *)
(* rejected and counted, another trades with it and adds its trade, and a  *)
(* CancelOrderMessage of an id the book has not is counted.                *)
MessagesCountedWitness ==
    /\ stats_.messagesProcessed = 1
    /\ \E id \in DOMAIN orders_ :
          /\ \E msg \in FeedMessages :
                /\ msg.type = "NewOrder" /\ msg.orderId = id
                /\ SameBook(ProcessMarketData(Self, msg).ob, Self)
                /\ ProcessMarketData(Self, msg).stats.newOrders = stats_.newOrders + 1
          /\ \E msg \in FeedMessages :
                /\ msg.type = "NewOrder" /\ msg.orderId # id
                /\ ProcessMarketData(Self, msg).stats.trades = stats_.trades + 1
          /\ \E msg \in FeedMessages :
                /\ msg.type = "CancelOrder" /\ msg.orderId \notin DOMAIN orders_
                /\ ProcessMarketData(Self, msg).stats.cancellations = stats_.cancellations + 1

----------------------------------------------------------------------------
(* MatchOrder with a replacement the exchange rules reject. *)

(* Neither of the two day checks of a MatchOrder of a resting id fires: the *)
(* one it begins with, and the one of its AddOrder, which reads the clock  *)
(* again.                                                                  *)
NoResetInModify(ob) ==
    ~ShouldResetDay(ob) /\ ~ShouldResetDay([ob EXCEPT !.reads = @ + 1])

(* The replacement of a resting order fails the rules in force. *)
ReplacementFails(modify) ==
    /\ modify.orderId \in DOMAIN orders_
    /\ FailsRules(exchangeRules_, ToOrderPointer(modify, orders_[modify.orderId].orderType))

(* r is the result of MatchOrder: no Trades, no order of the id, one order *)
(* less, the other orders where they were.                                 *)
OriginalLost(modify, r) ==
    /\ r.trades = <<>>
    /\ modify.orderId \notin DOMAIN r.ob.orders
    /\ Size(r.ob) = Size(Self) - 1
    /\ SameBook(r.ob, CancelOrder(Self, modify.orderId))

(* C31 as stated: if the replacement is rejected by admission, MatchOrder  *)
(* returns no Trades and the book holds no order of that id: Size() has    *)
(* decreased by one and the original is not restored.                      *)
RejectedModifyLosesOriginal ==
    \A modify \in Modifications :
        ReplacementFails(modify)
        => /\ Returns(MatchOrder(Self, modify).ob)
           /\ OriginalLost(modify, MatchOrder(Self, modify))

(* C31 for the calls that return: when no day reset fires during the call, *)
(* a MatchOrder whose replacement is rejected by admission returns no      *)
(* Trades and leaves the book without an order of that id: Size() has      *)
(* decreased by one and the original is not restored.                      *)
RejectedModifyLosesOriginalNoReset ==
    \A modify \in Modifications :
        (NoResetInModify(Self) /\ ReplacementFails(modify))
        => OriginalLost(modify, MatchOrder(Self, modify))

(* Two orders rest under rules of tick size 2 and no reset is due; the     *)
(* modification of one to a price off the tick leaves the other alone.     *)
RejectedModifyLosesOriginalWitness ==
    /\ NoResetInModify(Self)
    /\ exchangeRules_.tickSize = 2
    /\ Size(Self) = 2
    /\ \E modify \in Modifications :
          /\ ReplacementFails(modify)
          /\ ~IsValidPrice(exchangeRules_, modify.price)
          /\ Size(MatchOrder(Self, modify).ob) = 1
          /\ modify.orderId \notin DOMAIN MatchOrder(Self, modify).ob.orders

----------------------------------------------------------------------------
(* A Market order larger than the opposite side. *)

(* The Market order o finds, its day check done, the book found: its id is *)
(* new and the opposite side holds less than its quantity.                 *)
ExceedsOpposite(found, o) ==
    /\ o.orderId \notin DOMAIN found.orders
    /\ ~OppositeEmpty(found, o.side)
    /\ o.initialQuantity > OppositeQuantity(found, o)

(* A later order of the opposite side, of a new id; a FillOrKill order     *)
(* among them only if the remainder fills it.                              *)
LaterOrders(ob, o) ==
    {later \in Orders :
        /\ later.side = Opposite(o.side)
        /\ later.orderId \notin DOMAIN ob.orders
        /\ later.orderType = "FillOrKill"
              => later.initialQuantity <= RestingOrder(ob, o.orderId).remainingQuantity}

(* r is the result of AddOrder for o. *)
RemainderRests(found, o, r) ==
    /\ OppositeEmpty(r.ob, o.side)
    /\ SumQuantity(r.trades) = OppositeQuantity(found, o)
    /\ o.orderId \in DOMAIN r.ob.orders
    /\ r.ob.orders[o.orderId]
          = [orderType |-> "GoodTillCancel", side |-> o.side, price |-> ExtremePrice(o.side)]
    /\ Levels(r.ob, o.side)[ExtremePrice(o.side)]
          = <<[NewOrder("GoodTillCancel", o.orderId, o.side, ExtremePrice(o.side),
                        o.initialQuantity)
                 EXCEPT !.remainingQuantity = o.initialQuantity - OppositeQuantity(found, o)]>>
    /\ Size(r.ob) = Cardinality(DOMAIN found.orders)
                       - Cardinality(Resting(Levels(found, Opposite(o.side)))) + 1
    /\ \E i \in 1..Size(r.ob) :
          LET infos == IF o.side = "Buy" THEN GetOrderInfos(r.ob).bids
                       ELSE GetOrderInfos(r.ob).asks
          IN  /\ i \in DOMAIN infos
              /\ infos[i] = [price |-> ExtremePrice(o.side),
                             quantity |-> <<0, o.initialQuantity - OppositeQuantity(found, o)>>]
    /\ \A later \in LaterOrders(r.ob, o) :
          /\ later.orderType # "Market" => CanMatch(r.ob, later.side, later.price)
          /\ AddOrder(r.ob, later).trades # <<>>
          /\ TradeIdOn(AddOrder(r.ob, later).trades[1], o.side) = o.orderId

(* C32: a Market order whose quantity exceeds the total remaining quantity *)
(* of the opposite side consumes that whole side, and what is left of it   *)
(* rests as a GoodTillCancel order at PRICE_MAX (Buy) or PRICE_MIN (Sell); *)
(* it is counted by Size(), shown by GetOrderInfos, and matches any later  *)
(* order of the opposite side whatever that order's limit price.           *)
MarketRemainderRests ==
    \A o \in MarketOrders :
        ExceedsOpposite(CheckAndResetDay(Self), o)
        => RemainderRests(CheckAndResetDay(Self), o, AddOrder(Self, o))

(* A Market Buy of quantity 2 finds one ask of quantity 1 and a bid; its   *)
(* remainder of 1 rests at PRICE_MAX and a later Sell at the highest price *)
(* trades with it.                                                         *)
MarketRemainderRestsWitness ==
    \E o \in MarketOrders :
        /\ o.side = "Buy" /\ o.initialQuantity = 2
        /\ ExceedsOpposite(CheckAndResetDay(Self), o)
        /\ DOMAIN bids_ # {}
        /\ PRICE_MAX \in DOMAIN AddOrder(Self, o).ob.bids
        /\ Len(AddOrder(Self, o).trades) = 1
        /\ \E later \in LaterOrders(AddOrder(Self, o).ob, o) :
              /\ later.orderType = "GoodTillCancel" /\ later.price = MaxPrice
              /\ AddOrder(AddOrder(Self, o).ob, later).trades[1].bid.price = PRICE_MAX

----------------------------------------------------------------------------
(* Snapshots of levels the exchange rules would refuse, and crossed ones.  *)

UncheckedLevels == [price : (-1)..MaxPrice, quantity : {1, MaxQuantity + 1}]

(* One or two bid levels of one price, and at most one ask level. *)
UncheckedMessages ==
    [type : {"BookSnapshot"},
     bids : {<<a>> : a \in UncheckedLevels}
            \cup {pair \in {<<a, b>> : a \in UncheckedLevels, b \in UncheckedLevels} :
                      pair[1].price = pair[2].price},
     asks : {<<>>} \cup {<<a>> : a \in UncheckedLevels},
     sequenceNumber : {MaxSequenceNumber}]

LevelFails(level) ==
    \/ ~IsValidPrice(exchangeRules_, level.price)
    \/ ~IsValidQuantity(exchangeRules_, level.quantity)

(* b is the book the snapshot leaves: an order for every level, whatever   *)
(* the rules in force say of it, and crossed if the levels are.            *)
InstalledUnchecked(msg, b) ==
    LET bidOrders == SyntheticOrders(msg.bids, "Buy", 0)
        askOrders == SyntheticOrders(msg.asks, "Sell", Len(bidOrders))
    IN  /\ b.bids = LevelsFrom(bidOrders)
        /\ b.asks = LevelsFrom(askOrders)
        /\ b.orders = IndexFrom(bidOrders \o askOrders)
        /\ Len(b.bids[msg.bids[1].price]) = Len(msg.bids)
        /\ (msg.asks # <<>> /\ msg.bids[1].price >= msg.asks[1].price) <=> Crossed(b)

IsSynthetic(id) == id[1] = SyntheticIdBase[1]

SyntheticTrade(trade) == IsSynthetic(trade.bid.orderId) /\ IsSynthetic(trade.ask.orderId)

(* The call came to MatchOrders. *)
ReachesMatchOrders(r) == r.matched /\ r.order.orderType # "FillOrKill"

(* The call came to MatchFillOrKill. *)
ReachesMatchFillOrKill(r) == r.matched /\ r.order.orderType = "FillOrKill"

(* r is the result of the FillOrKill order o on the book b: every trade is *)
(* one of o, the side of o is as it was and the opposite side is what it   *)
(* was less the fills of the trades, so that no order of the book has      *)
(* traded with another and the book is crossed if what is left is; with no *)
(* trade the book is as it was.                                            *)
ExecutedWithoutMatchingPass(b, o, r) ==
    /\ \A i \in 1..Len(r.trades) :
          /\ TradeIdOn(r.trades[i], o.side) = o.orderId
          /\ IsSynthetic(TradeIdOn(r.trades[i], Opposite(o.side)))
    /\ Levels(r.ob, o.side) = Levels(b, o.side)
    /\ Levels(r.ob, Opposite(o.side))
          = AfterFills(Levels(b, Opposite(o.side)), r.trades, Opposite(o.side))
    /\ r.trades = <<>> => Crossed(r.ob)

(* The order has traded and is of a type whose execution comes to         *)
(* CancelOrder: that of MatchFillOrKill for a resting order filled whole,  *)
(* that of MatchOrders for an ImmediateOrCancel order left with a          *)
(* remainder.                                                              *)
ReachesCancelOrder(r) ==
    /\ r.matched
    /\ r.trades # <<>>
    /\ r.order.orderType \in {"FillOrKill", "ImmediateOrCancel"}

(* r is the result of the order o on the crossed book b: a call that came  *)
(* to MatchOrders has left the book uncrossed by trades that each name a   *)
(* synthetic order, both of them synthetic when the incoming order takes   *)
(* no part; one that was rejected has left the book crossed; a FillOrKill  *)
(* order was executed without the matching pass.                           *)
UncrossedByMatchingPass(b, o, r) ==
    /\ ReachesMatchFillOrKill(r) => ExecutedWithoutMatchingPass(b, r.order, r)
    /\ ReachesMatchOrders(r)
          => /\ ~Crossed(r.ob)
             /\ r.trades # <<>>
             /\ \E i \in 1..Len(r.trades) :
                   \/ SyntheticTrade(r.trades[i])
                   \/ o.orderId \in {r.trades[i].bid.orderId, r.trades[i].ask.orderId}
             /\ \A i \in 1..Len(r.trades) :
                   o.orderId \notin {r.trades[i].bid.orderId, r.trades[i].ask.orderId}
                   => SyntheticTrade(r.trades[i])
    /\ ~r.matched => r.trades = <<>> /\ Crossed(r.ob)

(* The AddOrder calls on the crossed book b a snapshot left: a call that   *)
(* does not come to CancelOrder returns, and every call that returns       *)
(* leaves what UncrossedByMatchingPass says.                               *)
NextAddOrderUncrosses(b) ==
    \A o \in RuleOrders :
        \A r \in {AddOrder(b, o)} :
            /\ ~ReachesCancelOrder(r) => Returns(r.ob)
            /\ Returns(r.ob) => UncrossedByMatchingPass(b, o, r)

(* Every AddOrder on the crossed book b trades the synthetic orders        *)
(* against each other and leaves the book uncrossed.                       *)
NextAddOrderTradesSynthetic(b) ==
    \A o \in RuleOrders :
        /\ ~Crossed(AddOrder(b, o).ob)
        /\ \E i \in 1..Len(AddOrder(b, o).trades) :
              SyntheticTrade(AddOrder(b, o).trades[i])

EmptyBook == DOMAIN orders_ = {}

----------------------------------------------------------------------------
(* The types of the orders that rest. *)

RestingTypes == {"GoodTillCancel", "GoodForDay"}

(* Every order of the book ob, in its level and in the index, is of a      *)
(* resting type.                                                           *)
OnlyRestingTypes(ob) ==
    /\ \A o \in RestingOrders(ob) : o.orderType \in RestingTypes
    /\ \A id \in DOMAIN ob.orders : ob.orders[id].orderType \in RestingTypes

(* r is the result of AddOrder for o: what rests of o is of o's type, or   *)
(* GoodTillCancel for a Market order, and nothing if o is FillOrKill or    *)
(* ImmediateOrCancel.                                                      *)
RestsAsType(found, o, r) ==
    /\ OnlyRestingTypes(r.ob)
    /\ (o.orderId \in DOMAIN r.ob.orders /\ o.orderId \notin DOMAIN found.orders)
          => /\ o.orderType \notin {"FillOrKill", "ImmediateOrCancel"}
             /\ r.ob.orders[o.orderId].orderType
                   = IF o.orderType = "Market" THEN "GoodTillCancel" ELSE o.orderType

(* r is the result of MatchOrder: the replacement that rests has the type  *)
(* of the original.                                                        *)
KeepsType(found, modify, r) ==
    /\ OnlyRestingTypes(r.ob)
    /\ modify.orderId \in DOMAIN r.ob.orders
          => /\ modify.orderId \in DOMAIN found.orders
             /\ r.ob.orders[modify.orderId].orderType
                   = found.orders[modify.orderId].orderType
             /\ RestingOrder(r.ob, modify.orderId).orderType
                   = found.orders[modify.orderId].orderType

(* C34: between public operations every resting order is GoodTillCancel or *)
(* GoodForDay: Market orders are converted to GoodTillCancel before they   *)
(* are inserted, FillOrKill orders are never inserted, ImmediateOrCancel   *)
(* orders are removed before AddOrder returns, snapshots make only         *)
(* GoodTillCancel orders, and MatchOrder re-uses the type of the resting   *)
(* original.                                                               *)
RestingTypesOnly ==
    /\ OnlyRestingTypes(Self)
    /\ \A o \in Orders :
          RestsAsType(CheckAndResetDay(Self), o, AddOrder(Self, o))
    /\ \A modify \in Modifications :
          KeepsType(CheckAndResetDay(Self), modify, MatchOrder(Self, modify))
    /\ \A msg \in RebuildMessages :
          \A o \in RestingOrders(ProcessMarketData(Self, msg).ob) :
              o.orderType = "GoodTillCancel"

(* A snapshot left a crossed book; an ImmediateOrCancel Buy is inserted     *)
(* behind the synthetic bid, takes part in no trade of the matching pass,  *)
(* which leaves bids, and does not rest.                                   *)
RestingTypesOnlyWitness ==
    \E o \in Orders :
        /\ o.orderType = "ImmediateOrCancel" /\ o.side = "Buy"
        /\ o.orderId \notin DOMAIN orders_
        /\ AddOrder(Self, o).matched
        /\ AddOrder(Self, o).trades # <<>>
        /\ \A i \in 1..Len(AddOrder(Self, o).trades) :
              AddOrder(Self, o).trades[i].bid.orderId # o.orderId
        /\ DOMAIN AddOrder(Self, o).ob.bids # {}
        /\ o.orderId \notin DOMAIN AddOrder(Self, o).ob.orders

----------------------------------------------------------------------------
(* Orders and trades of quantity 0. *)

(* Orders of quantity 0, which the rules refuse. *)
ZeroQuantityOrders ==
    {NewOrder(t, id, s, p, 0) :
        t \in OrderTypes \ {"Market"}, id \in OrderIds, s \in Sides, p \in Prices}
    \cup {NewOrder("Market", id, s, InvalidPrice, 0) : id \in OrderIds, s \in Sides}

ZeroQuantityModifications ==
    [orderId : OrderIds, side : Sides, price : Prices, quantity : {0}]

(* The quantity the trades of r fill of the order of id. *)
FilledWhole(r, id) ==
    FilledOf(r.trades, Len(r.trades), r.start.orders[id].side, id)

AllRemain(ob) == \A o \in RestingOrders(ob) : o.remainingQuantity >= 1

(* r is the result of a call: every trade has a quantity, every order left *)
(* has a remaining quantity, and the orders the trades fill whole are in   *)
(* no level and not in the index.                                          *)
FilledOrdersLeave(r) ==
    /\ \A i \in 1..Len(r.trades) :
          r.trades[i].bid.quantity >= 1 /\ r.trades[i].ask.quantity >= 1
    /\ AllRemain(r.ob)
    /\ \A id \in DOMAIN r.start.orders :
          FilledWhole(r, id) = RestingOrder(r.start, id).remainingQuantity
          => /\ id \notin DOMAIN r.ob.orders
             /\ id \notin RestingIds(r.ob.bids) \cup RestingIds(r.ob.asks)

(* C35: under rules with min_quantity >= 1 every resting order has a       *)
(* remaining quantity >= 1 and every trade a quantity >= 1: an order is    *)
(* removed from its level and from the index in the public operation in    *)
(* which its remaining quantity reaches 0, and snapshot levels of quantity *)
(* 0 are not inserted.                                                     *)
NoEmptyOrderRests ==
    /\ exchangeRules_.minQuantity >= 1
    /\ AllRemain(Self)
    /\ \A o \in Orders \cup ZeroQuantityOrders : FilledOrdersLeave(AddOrder(Self, o))
    /\ \A modify \in Modifications \cup ZeroQuantityModifications :
          FilledOrdersLeave(MatchOrder(Self, modify))
    /\ \A msg \in RebuildMessages : AllRemain(ProcessMarketData(Self, msg).ob)

(* Two orders rest on one side; an order of the other side fills one whole *)
(* and the other in part, and an order of quantity 0 is refused; a         *)
(* snapshot with a level of quantity 0 leaves no order for it.             *)
NoEmptyOrderRestsWitness ==
    /\ \E o \in Orders :
          /\ Len(AddOrder(Self, o).trades) = 2
          /\ \E id \in DOMAIN orders_ :
                /\ FilledOf(AddOrder(Self, o).trades, 2, orders_[id].side, id) = 1
                /\ id \in DOMAIN AddOrder(Self, o).ob.orders
                /\ RestingOrder(AddOrder(Self, o).ob, id).remainingQuantity = 1
          /\ \E id \in DOMAIN orders_ : id \notin DOMAIN AddOrder(Self, o).ob.orders
    /\ \E o \in ZeroQuantityOrders :
          /\ o.orderId \notin DOMAIN orders_
          /\ RejectsUnchanged(Self, o)
    /\ \E msg \in RebuildMessages :
          /\ Len(msg.bids) = 2 /\ Len(NonZero(msg.bids)) = 1
          /\ Size(ProcessMarketData(Self, msg).ob) = 1

----------------------------------------------------------------------------
(* The reset over several days and in each zone, for books constructed at  *)
(* midnight and before and after the reset instant of their day, with the  *)
(* reset time set anew (SetDayResetTime).                                  *)

(* The hour and minute given to SetDayResetTime: a time of the hour the    *)
(* change of the clock repeats or skips, the time the book starts with,    *)
(* and a time that is refused.                                             *)
ResetTimes ==
    {<<2, MinutesPerHour \div 2>>,
     <<DefaultResetHour, DefaultResetMinute>>,
     <<HoursPerDay, DefaultResetMinute>>}

ConstructionTimes == {At(0, 0, 0), ConstructionTime, FirstReset + 1}

(* The minute of its calendar day the wall clock shows at t. *)
MinuteOfDay(t) == LocalTime(t) % MinutesPerDay

(* The midnights, and the instants at which the wall clock shows a reset   *)
(* time or the minute after it: twice on the day the clock is set back     *)
(* over it, never on the day the clock is set forward over it.             *)
ClockInstants ==
    LET shown == {x[1] * MinutesPerHour + x[2] + late :
                    x \in {y \in ResetTimes : y[1] < HoursPerDay}, late \in 0..1}
        instants == {day * MinutesPerDay + minute - shift :
                       day \in 0..(MaxDay + 1), minute \in shown,
                       shift \in {0, clockChange.shift}}
    IN  Midnights
        \cup {t \in instants :
                /\ t \in 0..At(MaxDay, HoursPerDay - 1, MinutesPerHour - 1)
                /\ MinuteOfDay(t) \in shown}

ResetInit ==
    /\ clockChange \in ClockChanges
    /\ killed = FALSE
    /\ nextReads = <<>>
    /\ bids_ = EmptyLevels
    /\ asks_ = EmptyLevels
    /\ orders_ = [id \in {} |-> 0]
    /\ now \in ConstructionTimes
    /\ lastDayReset_ = now
    /\ dayResetHour_ = DefaultResetHour
    /\ dayResetMinute_ = DefaultResetMinute
    /\ stats_ = ZeroStats
    /\ lastSequenceNumber_ = 0
    /\ isInitialized_ = FALSE
    /\ exchangeRules_ = DefaultRules

SetDayResetTimeCall(hour, minute) ==
    /\ ~killed
    /\ IF hour >= 0 /\ hour <= 23 /\ minute >= 0 /\ minute <= 59
       THEN dayResetHour_' = hour /\ dayResetMinute_' = minute
       ELSE UNCHANGED <<dayResetHour_, dayResetMinute_>>
    /\ UNCHANGED <<bids_, asks_, orders_, lastDayReset_, stats_, lastSequenceNumber_,
                   isInitialized_, exchangeRules_, now, nextReads, clockChange, killed>>

(* The calls are those of one client order. *)
ResetOrders == {o \in Orders : o.orderId = ClientId(1)}
ResetModifications == {modify \in Modifications : modify.orderId = ClientId(1)}

ResetNext ==
    \/ \E order \in ResetOrders : AddOrderCall(order)
    \/ \E orderId \in {ClientId(1)} : CancelOrderCall(orderId)
    \/ \E modify \in ResetModifications : MatchOrderCall(modify)
    \/ \E t \in ClockInstants : Tick(t)
    \/ \E t \in ClockInstants : ClockAhead(<<t>>)
    \/ \E t \in ResetTimes : SetDayResetTimeCall(t[1], t[2])

ResetSpec == ResetInit /\ [][ResetNext]_vars

(* The reset of the book is marked at or after the reset time of its       *)
(* calendar day: the sweep fired then, or the book was constructed then.   *)
MarkedSince(ob) ==
    MinuteOfDay(ob.lastDayReset) >= dayResetHour_ * MinutesPerHour + dayResetMinute_

(* The instants at which the call that left r read the clock, and the last *)
(* of them.                                                                *)
ReadBy(r) == {Reading(i) : i \in 1..r.ob.reads}
LastReadBy(r) == Reading(r.ob.reads)

(* Every read of the call is before the reset time of the calendar day     *)
(* that follows the day of t.                                              *)
BeforeNextReset(t, r) ==
    \A read \in ReadBy(r) :
        \/ LocalDay(read) = LocalDay(t)
        \/ /\ LocalDay(read) = LocalDay(t) + 1
           /\ MinuteOfDay(read) < dayResetHour_ * MinutesPerHour + dayResetMinute_

(* The call leaves the mark of the reset and sweeps nothing. *)
NoSweep(ob, r) ==
    /\ r.ob.lastDayReset = ob.lastDayReset
    /\ SameMembers(CheckAndResetDay(ob), ob)

(* The call marks the reset at an instant it read, at or after which the   *)
(* reset time of its day was, and after which no reset is due.             *)
SweepMarked(r) ==
    /\ r.ob.lastDayReset \in ReadBy(r)
    /\ MarkedSince(r.ob)
    /\ ~(/\ r.ob.lastDayReset < ResetTimeAt(LastReadBy(r))
         /\ LastReadBy(r) >= ResetTimeAt(LastReadBy(r)))

(* C36: the day sweep fires at most once per reset instant: a call on      *)
(* which it fires marks the reset at the instant it read, and from a mark  *)
(* at or after the reset instant of its day (the sweep fired, or the book  *)
(* was constructed after that instant) no AddOrder or MatchOrder made      *)
(* before the reset instant of the next calendar day fires it, for the     *)
(* reset time in force.                                                    *)
SweepsOncePerInstant ==
    /\ ShouldResetDay(Self)
       => /\ \A o \in Orders : SweepMarked(AddOrder(Self, o))
          /\ \A modify \in Modifications : SweepMarked(MatchOrder(Self, modify))
    /\ MarkedSince(Self)
       => /\ \A o \in Orders :
                BeforeNextReset(lastDayReset_, AddOrder(Self, o))
                => NoSweep(Self, AddOrder(Self, o))
          /\ \A modify \in Modifications :
                BeforeNextReset(lastDayReset_, MatchOrder(Self, modify))
                => NoSweep(Self, MatchOrder(Self, modify))

(* C36 in a zone without a change of the clock: there the sweep fires at   *)
(* most once per reset instant.                                            *)
SweepsOncePerInstantNoChange ==
    clockChange = NoClockChange => SweepsOncePerInstant

----------------------------------------------------------------------------
(* Ids used again. *)

(* An id no client order of the calls carries. *)
FreshId == ClientId(MaxOrderId + 1)

(* x with the id to in the place of the id from: an id, the orders of a    *)
(* level, the levels of a side, the index, a book, the Trades.             *)
AsId(x, from, to) == IF x = from THEN to ELSE x

AsIdInQueue(orders, from, to) ==
    [i \in DOMAIN orders |-> [orders[i] EXCEPT !.orderId = AsId(@, from, to)]]

AsIdInLevels(levels, from, to) ==
    [p \in DOMAIN levels |-> AsIdInQueue(levels[p], from, to)]

AsIdInIndex(index, from, to) ==
    [k \in {AsId(x, from, to) : x \in DOMAIN index} |->
        IF k = to /\ from \in DOMAIN index THEN index[from] ELSE index[k]]

AsIdInBook(ob, from, to) ==
    [bids |-> AsIdInLevels(ob.bids, from, to), asks |-> AsIdInLevels(ob.asks, from, to),
     orders |-> AsIdInIndex(ob.orders, from, to), lastDayReset |-> ob.lastDayReset,
     readFreed |-> ob.readFreed, reads |-> ob.reads]

AsIdInTrades(trades, from, to) ==
    [j \in DOMAIN trades |->
        [trades[j] EXCEPT !.bid.orderId = AsId(@, from, to),
                          !.ask.orderId = AsId(@, from, to)]]

(* The call r of an order of the id from is, with the id to in its place,  *)
(* the call s.                                                             *)
SameCallAs(r, s, from, to) ==
    /\ AsIdInBook(r.ob, from, to) = s.ob
    /\ AsIdInTrades(r.trades, from, to) = s.trades
    /\ [r.order EXCEPT !.orderId = AsId(@, from, to)] = s.order
    /\ AsIdInBook(r.start, from, to) = s.start
    /\ r.matched = s.matched

AdmittedLikeFresh(ob, o) ==
    SameCallAs(AddOrder(ob, [o EXCEPT !.orderId = FreshId]), AddOrder(ob, o),
               FreshId, o.orderId)

(* The ids of the index of ob the call has filled, which are not in the    *)
(* index it leaves.                                                        *)
FilledLeaveIndex(r) ==
    \A id \in DOMAIN r.start.orders :
        FilledWhole(r, id) = RestingOrder(r.start, id).remainingQuantity
        => id \notin DOMAIN r.ob.orders

(* An ImmediateOrCancel or FillOrKill order of an id the index has not is  *)
(* not in the index the call leaves.                                       *)
NeverRests(ob, o, r) ==
    (o.orderType \in {"ImmediateOrCancel", "FillOrKill"} /\ o.orderId \notin DOMAIN ob.orders)
    => o.orderId \notin DOMAIN r.ob.orders

(* C37: duplicate-id detection covers only the orders of the index: an     *)
(* order filled completely, cancelled, expired by the day sweep or wiped   *)
(* by a snapshot leaves the index, an ImmediateOrCancel or FillOrKill      *)
(* order does not stay in it (the ids are those of client orders; a        *)
(* snapshot gives its synthetic ids anew), and an AddOrder of an id the    *)
(* index has not is the AddOrder of a fresh id in all it returns and       *)
(* leaves.                                                                 *)
UsedIdsAdmitted ==
    /\ \A o \in Orders :
          /\ FilledLeaveIndex(AddOrder(Self, o))
          /\ NeverRests(Self, o, AddOrder(Self, o))
          /\ o.orderId \notin DOMAIN orders_ => AdmittedLikeFresh(Self, o)
    /\ \A id \in OrderIds : id \notin DOMAIN CancelOrder(Self, id).orders
    /\ ShouldResetDay(Self)
          => GoodForDayIds(Self) \cap DOMAIN CheckAndResetDay(Self).orders = {}
    /\ \A msg \in RebuildMessages :
          DOMAIN ProcessMarketData(Self, msg).ob.orders \cap DOMAIN orders_ \cap OrderIds = {}

(* A resting order is cancelled, or filled by an order that is filled      *)
(* itself, and an order of its id rests in the book that leaves, as the    *)
(* order of a fresh id does.                                               *)
UsedIdsAdmittedWitness ==
    /\ \E id \in DOMAIN orders_ : \E o \in Orders :
          /\ o.orderId = id
          /\ id \in DOMAIN AddOrder(CancelOrder(Self, id), o).ob.orders
          /\ AdmittedLikeFresh(CancelOrder(Self, id), o)
    /\ \E taker \in Orders : \E o \in Orders :
          /\ taker.orderId \notin DOMAIN orders_
          /\ Len(AddOrder(Self, taker).trades) = 1
          /\ DOMAIN AddOrder(Self, taker).ob.orders = {}
          /\ o.orderId \in DOMAIN orders_
          /\ o.orderId \in DOMAIN AddOrder(AddOrder(Self, taker).ob, o).ob.orders

----------------------------------------------------------------------------
(* Messages and failures. *)

(* NewOrder messages the exchange rules refuse. *)
ZeroQuantityMessages ==
    [type : {"NewOrder"}, orderId : OrderIds, side : Sides, price : Prices,
     quantity : {0}, orderType : OrderTypes]

(* The map has the level of every order of the index, which is the level   *)
(* the at(price) of CancelOrder looks for.                                 *)
LevelsFound(ob) ==
    \A id \in DOMAIN ob.orders :
        /\ ob.orders[id].price \in DOMAIN Levels(ob, ob.orders[id].side)
        /\ \E i \in DOMAIN Levels(ob, ob.orders[id].side)[ob.orders[id].price] :
              Levels(ob, ob.orders[id].side)[ob.orders[id].price][i].orderId = id

(* r is what ProcessMarketData gives. *)
Succeeds(r) ==
    /\ r.result = TRUE
    /\ r.stats.errors = 0
    /\ r.stats.messagesProcessed = stats_.messagesProcessed + 1
    /\ LevelsFound(r.ob)

(* batch is what ProcessMarketDataBatch gives for messages. *)
AllSucceed(messages, batch) ==
    /\ batch.successCount = Len(messages)
    /\ batch.feed.stats.errors = 0

(* C38 for the calls that return: ProcessMarketData gives true for every   *)
(* message of every variant in every reachable state and the errors        *)
(* counter stays 0, and ProcessMarketDataBatch gives the length of its     *)
(* input.                                                                  *)
MessagesNeverFailWhenReturned ==
    /\ stats_.errors = 0
    /\ LevelsFound(Self)
    /\ \A msg \in FeedMessages \cup Messages \cup ZeroQuantityMessages :
          Succeeds(ProcessMarketData(Self, msg))
    /\ \A messages \in CheckedBatches :
          AllSucceed(messages, ProcessMarketDataBatch(Feed, messages))

(* C38: ProcessMarketData returns true for every message of every variant  *)
(* in every reachable state and the errors counter stays 0, so             *)
(* ProcessMarketDataBatch returns the length of its input: the calls       *)
(* return, with these values.                                              *)
MessagesNeverFail ==
    /\ MessagesNeverFailWhenReturned
    /\ \A msg \in FeedMessages \cup Messages \cup ZeroQuantityMessages :
          Returns(ProcessMarketData(Self, msg).ob)
    /\ \A messages \in CheckedBatches :
          Returns(ProcessMarketDataBatch(Feed, messages).feed.ob)

(* An order rests: a NewOrder message of its id, one of quantity 0, a      *)
(* FillOrKill order nothing fills, and the cancel and the modification of  *)
(* an id the index has not are refused and leave the book, and the batch   *)
(* of two of them returns 2.                                               *)
MessagesNeverFailWitness ==
    /\ Size(Self) = 1
    /\ \E id \in DOMAIN orders_ : \E other \in OrderIds \ DOMAIN orders_ :
          \E msg \in FeedMessages : \E zero \in ZeroQuantityMessages :
          \E kill \in FeedMessages :
          \E cancel \in FeedMessages : \E modify \in FeedMessages :
             /\ msg.type = "NewOrder" /\ msg.orderId = id
             /\ msg.orderType = "GoodTillCancel"
             /\ zero.orderId = other /\ zero.orderType = "GoodTillCancel"
             /\ kill.type = "NewOrder" /\ kill.orderId = other
             /\ kill.orderType = "FillOrKill" /\ kill.side = orders_[id].side
             /\ cancel.type = "CancelOrder" /\ cancel.orderId = other
             /\ modify.type = "ModifyOrder" /\ modify.orderId = other
             /\ \A m \in {msg, zero, kill, cancel, modify} :
                   /\ SameBook(ProcessMarketData(Self, m).ob, Self)
                   /\ ProcessMarketData(Self, m).result = TRUE
                   /\ ProcessMarketData(Self, m).stats.errors = 0
             /\ ProcessMarketDataBatch(Feed, <<msg, cancel>>).successCount = 2

----------------------------------------------------------------------------
(* The number of trades of a call. *)

(* What remained of the order of id when the matching of the call r began: *)
(* a FillOrKill order is matched without being inserted.                   *)
RemainingAtStart(r, id) ==
    IF id \in DOMAIN r.start.orders THEN RestingOrder(r.start, id).remainingQuantity
    ELSE r.order.initialQuantity

(* With trade j the order on this side of it has all it had to fill, and   *)
(* the call leaves it neither in the index nor in a level.                 *)
FillsAndRemoves(r, j, side) ==
    LET id == TradeIdOn(r.trades[j], side)
    IN  /\ FilledOf(r.trades, j, side, id) = RemainingAtStart(r, id)
        /\ id \notin DOMAIN r.ob.orders
        /\ id \notin RestingIds(r.ob.bids) \cup RestingIds(r.ob.asks)

TradesBounded(r) ==
    /\ \A j \in 1..Len(r.trades) :
          FillsAndRemoves(r, j, "Buy") \/ FillsAndRemoves(r, j, "Sell")
    /\ Len(r.trades) <= Cardinality(DOMAIN r.start.orders \cup {r.order.orderId})

(* C39: every AddOrder and MatchOrder call returns, each of its trades     *)
(* fills completely and removes at least one of the two orders of the      *)
(* trade, and the number of trades it returns is at most the number of     *)
(* orders in the book, the incoming one included, when matching starts.    *)
TradesAtMostOrders ==
    /\ \A o \in Orders : TradesBounded(AddOrder(Self, o))
    /\ \A modify \in Modifications : TradesBounded(MatchOrder(Self, modify))

(* An order that trades with both resting orders and leaves the book       *)
(* empty: two trades in a book of three orders, the second of which fills  *)
(* both of its orders.                                                     *)
TradesAtMostOrdersWitness ==
    /\ Size(Self) = 2
    /\ \E o \in Orders :
          /\ Len(AddOrder(Self, o).trades) = 2
          /\ Size(AddOrder(Self, o).start) = 3
          /\ Size(AddOrder(Self, o).ob) = 0
          /\ FillsAndRemoves(AddOrder(Self, o), 2, "Buy")
          /\ FillsAndRemoves(AddOrder(Self, o), 2, "Sell")

----------------------------------------------------------------------------
(* The statistics and the operations that read (GetMarketDataStats,        *)
(* ResetMarketDataStats, IsInitialized, GetLastSequenceNumber,             *)
(* GetExchangeRules).  A book driven by its feed, with the statistics      *)
(* reset and the rules set between the messages.                           *)

GetMarketDataStats == stats_
IsInitialized == isInitialized_
GetLastSequenceNumber == lastSequenceNumber_
GetExchangeRules == exchangeRules_

(* ResetMarketDataStats zeroing the sequence number and the initialised    *)
(* flag with the statistics.                                               *)
ResetMarketDataFeed(f) ==
    [f EXCEPT !.stats = ZeroStats, !.lastSequenceNumber = 0, !.isInitialized = FALSE]

(* stats_.Reset() on the members f. *)
ResetMarketDataStats(f) == [f EXCEPT !.stats = ZeroStats]

ResetMarketDataStatsCall ==
    /\ SetFeed(ResetMarketDataStats(Feed))
    /\ UNCHANGED <<clockChange, dayResetHour_, dayResetMinute_, exchangeRules_>>

(* ProcessMarketData; the counters start again with each reset of the      *)
(* statistics.                                                             *)
InfoMessageCall(msg) ==
    /\ stats_.messagesProcessed < MaxFeedMessages
    /\ SetFeed(ProcessMarketData(Self, msg))
    /\ UNCHANGED <<clockChange, dayResetHour_, dayResetMinute_, exchangeRules_>>

(* The feed messages with the snapshots of the sequence numbers up to      *)
(* MaxSequenceNumber, and the default rules and rules that refuse the      *)
(* quantity of the orders of the feed.                                     *)
InfoMessages ==
    {msg \in FeedMessages :
        msg.type = "BookSnapshot" => msg.sequenceNumber <= MaxSequenceNumber}

InfoRuleSets == {DefaultRules, [DefaultRules EXCEPT !.maxQuantity = 1]}

InfoNext ==
    \/ \E msg \in InfoMessages : InfoMessageCall(msg)
    \/ ResetMarketDataStatsCall
    \/ \E rules \in InfoRuleSets : SetExchangeRules(rules)
    \/ \E t \in {FirstReset} : Tick(t)
    \/ \E t \in {FirstReset} : ClockAhead(<<t>>)

InfoSpec == Init /\ [][InfoNext]_vars

(* The step leaves every level, order, remaining quantity and index entry, *)
(* and with them what Size and GetOrderInfos return.                       *)
BookUntouched ==
    /\ UNCHANGED <<bids_, asks_, orders_, lastDayReset_>>
    /\ Size(Self)' = Size(Self)
    /\ GetOrderInfos(Self)' = GetOrderInfos(Self)

(* The steps of ResetMarketDataStats, of a TradeMessage and of             *)
(* SetExchangeRules.                                                       *)
StatsResetStep == GetMarketDataStats # ZeroStats /\ GetMarketDataStats' = ZeroStats

TradeMessageStep ==
    /\ stats_'.messagesProcessed = stats_.messagesProcessed + 1
    /\ stats_'.trades = stats_.trades + 1
    /\ stats_'.newOrders = stats_.newOrders

RulesStep == GetExchangeRules' # GetExchangeRules

InformationalStep ==
    /\ StatsResetStep
          => /\ BookUntouched
             /\ IsInitialized' = IsInitialized
             /\ GetLastSequenceNumber' = GetLastSequenceNumber
             /\ UNCHANGED <<exchangeRules_, dayResetHour_, dayResetMinute_>>
    /\ TradeMessageStep
          => /\ BookUntouched
             /\ stats_' = [stats_ EXCEPT !.messagesProcessed = @ + 1, !.trades = @ + 1]
             /\ UNCHANGED <<isInitialized_, lastSequenceNumber_, exchangeRules_>>
    /\ RulesStep
          => /\ BookUntouched
             /\ UNCHANGED <<stats_, isInitialized_, lastSequenceNumber_>>

(* C40: the read-only and informational operations leave the book: the     *)
(* values Size, GetOrderInfos, GetMarketDataStats, GetExchangeRules,       *)
(* IsInitialized and GetLastSequenceNumber return are those of the members *)
(* and change with no step of ResetMarketDataStats, of a TradeMessage or   *)
(* of SetExchangeRules other than the statistics, the trade counters and   *)
(* the rules; ResetMarketDataStats zeroes the statistics and leaves        *)
(* is_initialized and last_sequence_number, and SetExchangeRules leaves    *)
(* the resting orders, those the new rules would refuse included.          *)
InformationalLeaveBook == [][InformationalStep]_vars

(* After a snapshot and an order, the statistics were reset, rules were    *)
(* set that refuse the resting order, and a TradeMessage was counted: the  *)
(* order rests, and the book is initialised at its sequence number.        *)
InformationalLeaveBookWitness ==
    /\ stats_ = [ZeroStats EXCEPT !.messagesProcessed = 1, !.trades = 1]
    /\ isInitialized_
    /\ lastSequenceNumber_ >= 1
    /\ \E id \in DOMAIN orders_ \cap OrderIds :
          ~IsValidQuantity(exchangeRules_, RestingOrder(Self, id).remainingQuantity)

====
